---- MODULE Spec2Model ----
(***************************************************************************)
(* Rate limiter: the sliding-window counter kept in Redis, the             *)
(* fixed-window fall-through, the in-memory fallback, the circuit breaker  *)
(* that guards check-and-increment, and the middleware composer.           *)
(*                                                                         *)
(* All instants and durations are in milliseconds, as in the source.       *)
(***************************************************************************)
EXTENDS Integers, Naturals, Sequences, FiniteSets, TLC

\* ------------------------------------------------------------------------
\* Bounds of the model
\* ------------------------------------------------------------------------
\* the clock advances in steps of TickMs, up to MaxTicks steps
TickMs == 500
MaxTicks == 3
\* concurrent check-and-increment callers, and calls made in one behaviour
NumCallers == 2
MaxCalls == 3
\* the breaker alone: calls made in one behaviour, and the number of short
\* clock steps on top of two recovery timeouts
CBMaxCalls == 7
CBTicks == 2
\* the middleware: requests in flight at once, requests made in one
\* behaviour, and clock steps
MWSlots == 2
MWMaxReqs == 2
MWTicks == 2
\* the middleware with one request at a time: clock steps, and runs of the
\* recurring cleanup job
SeqTicks == 1
PeriodicRuns == 2
\* the operations outside the routes: clock steps, and jobs added
OpsTicks == 2
OpsJobs == 2
\* calls of the operations of CacheService and RedisService outside the
\* routes
OpsCalls == 3
\* key generation: the largest windowMs and maxRequests of a configuration
KeyMaxWindow == 11
KeyMaxLimit == 11
\* clock steps and calls when each store command may fail on its own
FlakyTicks == 2
FlakyCalls == 2
\* identifier extraction: fragments that make up the values of a request
IdentMaxParts == 2
\* the worker: jobs active at once, and clock steps before the signal
WorkerJobs == 2
WorkerSignalTicks == 2
\* concurrent requests with reverts: clock steps
RevertTicks == 2
\* the cleanup job: clients that have keys at the store
SweepClients == 2
\* warning headers: the largest maxRequests of the rule
WarnMaxLimit == 10
\* the local throttle: clock steps
ThrottleTicks == 3
\* clock steps and calls of one client that makes one call at a time
SerialTicks == 3
SerialCalls == 4

Callers == 1..NumCallers
MaxNow == MaxTicks * TickMs

\* ------------------------------------------------------------------------
\* Arithmetic helpers
\* ------------------------------------------------------------------------
\* Math.ceil(a / b) for b > 0
CeilDiv(a, b) == IF a % b = 0 THEN a \div b ELSE (a \div b) + 1

\* Math.floor(a / b) for a >= 0, b > 0
FloorDiv(a, b) == a \div b

Max2(a, b) == IF a >= b THEN a ELSE b

\* ------------------------------------------------------------------------
\* Rules (RateLimitRule).  An id is a string, written as the sequence of
\* its character codes; algorithm "undefined" stands for a rule that sets
\* none; statusCode 0 stands for an absent statusCode; skips are the paths
\* for which the skipIf of the rule holds; ownKey tells that the rule has a
\* keyGenerator of its own (req.ip:req.path).
\* ------------------------------------------------------------------------
\* the rules of the demonstration server: 'global', 'api', 'auth', 'burst'
ServerRules ==
  << [id |-> <<103, 108, 111, 98, 97, 108>>, windowMs |-> 900000,
      maxRequests |-> 1000, algorithm |-> "undefined", statusCode |-> 0,
      skips |-> {}, ownKey |-> FALSE],
     [id |-> <<97, 112, 105>>, windowMs |-> 60000,
      maxRequests |-> 100, algorithm |-> "undefined", statusCode |-> 0,
      skips |-> {"/health"}, ownKey |-> TRUE],
     [id |-> <<97, 117, 116, 104>>, windowMs |-> 300000,
      maxRequests |-> 5, algorithm |-> "undefined", statusCode |-> 423,
      skips |-> {}, ownKey |-> FALSE],
     [id |-> <<98, 117, 114, 115, 116>>, windowMs |-> 1000,
      maxRequests |-> 10, algorithm |-> "undefined", statusCode |-> 0,
      skips |-> {}, ownKey |-> FALSE] >>

ApiRule == ServerRules[2]
BurstRule == ServerRules[4]

\* two rules with small limits, 'short' with the sliding algorithm and
\* 'pair' with none
ShortRule ==
  [BurstRule EXCEPT !.id = <<115, 104, 111, 114, 116>>, !.windowMs = 500,
                    !.maxRequests = 1, !.algorithm = "sliding"]
PairRule ==
  [BurstRule EXCEPT !.id = <<112, 97, 105, 114>>, !.maxRequests = 2]

\* the rules CacheService.checkRateLimit is called with
RuleChoices == {BurstRule, ApiRule, ShortRule, PairRule}

\* ------------------------------------------------------------------------
\* The Redis key of one (rule, client): a sorted set of (score, member), or
\* a string holding the JSON of a CacheEntry, with its expiry instant.
\* ------------------------------------------------------------------------
NoEntry == [count |-> 0, resetTime |-> 0, createdAt |-> 0]

EmptyKey == [kind |-> "none", members |-> {}, entry |-> NoEntry, expireAt |-> 0]

\* a key is gone once store time t has passed the instant its TTL runs out
Live(k, t) == IF k.kind # "none" /\ t > k.expireAt THEN EmptyKey ELSE k

\* ZREMRANGEBYSCORE that removes nothing
ZRemRangeByScore_none(k, windowStart) == k

\* ZREMRANGEBYSCORE key -inf windowStart (an emptied sorted set is deleted)
ZRemRangeByScore(k, windowStart) ==
  LET kept == { m \in k.members : m[1] > windowStart }
  IN  IF kept = {} THEN EmptyKey ELSE [k EXCEPT !.members = kept]

\* ZADD key score member
ZAdd(k, score, member) ==
  [kind |-> "zset", members |-> k.members \cup {<<score, member>>},
   entry |-> NoEntry, expireAt |-> k.expireAt]

\* EXPIRE key seconds, issued at store time t
Expire(k, seconds, t) ==
  IF k.kind = "none" THEN k ELSE [k EXCEPT !.expireAt = t + seconds * 1000]

\* SETEX key seconds value, issued at store time t (overwrites any type)
SetEx(seconds, e, t) ==
  [kind |-> "string", members |-> {}, entry |-> e, expireAt |-> t + seconds * 1000]

\* The Lua script of slidingWindowCheck, run atomically at store time t on a
\* key that is not a string.  Returns the new key and the decoded reply.
SlidingScript(k0, argNow, rule, increment, requestId, t) ==
  LET windowStart  == argNow - rule.windowMs
      resetTime    == argNow + rule.windowMs
      k1           == ZRemRangeByScore(Live(k0, t), windowStart)
      currentCount == Cardinality(k1.members)
      allowed      == currentCount < rule.maxRequests
      k2           == IF increment /\ allowed THEN ZAdd(k1, argNow, requestId) ELSE k1
      finalCount   == IF increment /\ allowed THEN currentCount + 1 ELSE currentCount
      k3           == IF finalCount > 0
                      THEN Expire(k2, CeilDiv(rule.windowMs, 1000), t)
                      ELSE k2
  IN  [key |-> k3,
       data |-> [count |-> finalCount, resetTime |-> resetTime, createdAt |-> argNow],
       allowed |-> allowed]

\* The Lua script of incrementCounterFixedWindow, run atomically at store
\* time t on a key that is not a sorted set.
FixedScript(k0, argNow, rule, t) ==
  LET windowStart == FloorDiv(argNow, rule.windowMs) * rule.windowMs
      resetTime   == windowStart + rule.windowMs
      fresh       == [count |-> 0, resetTime |-> resetTime, createdAt |-> argNow]
      k1          == Live(k0, t)
      d0          == IF k1.kind = "string" THEN k1.entry ELSE fresh
      d1          == IF argNow >= d0.resetTime THEN fresh ELSE d0
      ttl         == CeilDiv(d1.resetTime - argNow, 1000)
      denied      == d1.count >= rule.maxRequests
      d2          == IF denied THEN d1 ELSE [d1 EXCEPT !.count = d1.count + 1]
  IN  [key |-> SetEx(ttl, d2, t), data |-> d2, allowed |-> ~denied]

\* incrementCounterFallback: the entry computed from what getRateLimitData
\* returned (found = FALSE stands for null)
FallbackData(found, existing, argNow, rule) ==
  LET windowStart == FloorDiv(argNow, rule.windowMs) * rule.windowMs
      resetTime   == windowStart + rule.windowMs
  IN  IF ~found \/ argNow >= existing.resetTime
      THEN [count |-> 1, resetTime |-> resetTime, createdAt |-> argNow]
      ELSE [existing EXCEPT !.count = existing.count + 1]

\* ------------------------------------------------------------------------
\* Circuit breaker (a record of its three fields)
\* ------------------------------------------------------------------------
failureThreshold == 5
recoveryTimeout == 30000

NewBreaker == [state |-> "CLOSED", failures |-> 0, lastFailureTime |-> 0]

onSuccess(b) == [b EXCEPT !.failures = 0, !.state = "CLOSED"]

\* onFailure opening the breaker one failure late
onFailure_late(b, t) ==
  [state |-> IF b.failures + 1 > failureThreshold THEN "OPEN" ELSE b.state,
   failures |-> b.failures + 1,
   lastFailureTime |-> t]

onFailure(b, t) ==
  [state |-> IF b.failures + 1 >= failureThreshold THEN "OPEN" ELSE b.state,
   failures |-> b.failures + 1,
   lastFailureTime |-> t]

\* the recovery test passing already at exactly recoveryTimeout
Recovered_early(b, t) == t - b.lastFailureTime >= recoveryTimeout

\* execute(): Date.now() - this.lastFailureTime > this.recoveryTimeout
Recovered(b, t) == t - b.lastFailureTime > recoveryTimeout

\* the synchronous head of execute(): TRUE when the operation is to be run
RunsPrimary(b, t) == b.state # "OPEN" \/ Recovered(b, t)

\* the breaker after the head of execute()
Gate(b, t) ==
  IF b.state = "OPEN" /\ Recovered(b, t)
  THEN [b EXCEPT !.state = "HALF_OPEN"]
  ELSE b

\* ------------------------------------------------------------------------
\* CacheService
\* ------------------------------------------------------------------------
\* buildResult(data, rule, allowed), with Date.now() = t
buildResult(data, rule, allowed, t) ==
  [allowed |-> allowed,
   totalRequests |-> data.count,
   remainingRequests |-> Max2(0, rule.maxRequests - data.count),
   resetTime |-> data.resetTime,
   hasRetryAfter |-> ~allowed,
   retryAfter |-> IF allowed THEN 0 ELSE CeilDiv(data.resetTime - t, 1000)]

\* buildDefaultResult(rule, allowed), with Date.now() = t
buildDefaultResult(rule, allowed, t) ==
  [allowed |-> allowed,
   totalRequests |-> 0,
   remainingRequests |-> rule.maxRequests,
   resetTime |-> t + rule.windowMs,
   hasRetryAfter |-> ~allowed,
   retryAfter |-> IF allowed THEN 0 ELSE CeilDiv(rule.windowMs, 1000)]

\* checkRateLimitInMemory: the entry written to the local cache
\* (found = FALSE stands for a missing entry)
InMemoryData(found, existing, rule, t) ==
  IF ~found \/ t >= existing.resetTime
  THEN [count |-> 1,
        resetTime |-> IF rule.algorithm = "sliding"
                      THEN t + rule.windowMs
                      ELSE FloorDiv(t, rule.windowMs) * rule.windowMs + rule.windowMs,
        createdAt |-> t]
  ELSE [existing EXCEPT !.count = existing.count + 1]

InMemoryAllowed(data, rule) == data.count <= rule.maxRequests

\* ------------------------------------------------------------------------
\* HeadersUtil.generateRateLimitKey.  A string is the sequence of its
\* character codes; a 32-bit integer is the pair <<hi, lo>> of the 16-bit
\* halves of its two's complement.
\* ------------------------------------------------------------------------
\* String(n) for a number n >= 0: its decimal digits
RECURSIVE Decimal(_)
Decimal(n) == IF n < 10 THEN <<48 + n>> ELSE Decimal(n \div 10) \o <<48 + (n % 10)>>

\* hash = ((hash << 5) - hash) + char; hash = hash & hash
HashChar(h, c) ==
  LET lo == h[2] * 31 + c
      hi == h[1] * 31 + (lo \div 65536)
  IN  <<hi % 65536, lo % 65536>>

\* the loop of hashString over the characters of str
RECURSIVE HashFrom(_, _)
HashFrom(h, str) ==
  IF str = <<>> THEN h ELSE HashFrom(HashChar(h, Head(str)), Tail(str))

\* Math.abs of a 32-bit integer (a number, so that Math.abs(-2^31) = 2^31)
Abs32(h) ==
  IF h[1] < 32768 THEN h
  ELSE IF h[2] = 0 THEN <<(65536 - h[1]) % 65536, 0>>
       ELSE <<65535 - h[1], 65536 - h[2]>>

\* Number.prototype.toString(36) of a number 0 <= n <= 2^31
DigitChar(d) == IF d < 10 THEN 48 + d ELSE 87 + d

RECURSIVE ToString36(_)
ToString36(h) ==
  LET rest == (h[1] % 36) * 65536 + h[2]
      quot == <<h[1] \div 36, rest \div 36>>
  IN  IF quot = <<0, 0>> THEN <<DigitChar(rest % 36)>>
      ELSE ToString36(quot) \o <<DigitChar(rest % 36)>>

hashString(str) == ToString36(Abs32(HashFrom(<<0, 0>>, str)))

\* identifier.replace(/[^a-zA-Z0-9._-]/g, '_')
SafeChar(c) ==
  IF \/ c >= 97 /\ c <= 122
     \/ c >= 65 /\ c <= 90
     \/ c >= 48 /\ c <= 57
     \/ c \in {45, 46, 95}
  THEN c ELSE 95

Sanitize(str) == [i \in 1..Len(str) |-> SafeChar(str[i])]

\* `rl:${rule.id}:${ruleHash}:${sanitizedId}`
generateRateLimitKey(identifier, r) ==
  LET ruleHash == hashString(r.id \o Decimal(r.windowMs) \o Decimal(r.maxRequests))
  IN  <<114, 108, 58>> \o r.id \o <<58>> \o ruleHash \o <<58>> \o Sanitize(identifier)

\* the rule ids "a" and "a1", and the configurations of a rule
KeyRuleIds == { <<97>>, <<97, 49>> }
KeyConfigs ==
  [id : KeyRuleIds, windowMs : 1..KeyMaxWindow, maxRequests : 1..KeyMaxLimit]

\* no configuration under consideration
NoConfigs == <<>>

\* the client identifier "10.0.0.7:4242"
KeyIdentifier == <<49, 48, 46, 48, 46, 48, 46, 55, 58, 52, 50, 52, 50>>

\* ------------------------------------------------------------------------
\* The CLEANUP job of a denial: redis.keys(`${key}*`) and DEL of every match.
\* ------------------------------------------------------------------------
\* KEYS pattern, the body of a class '[...]': p is the pattern after '['
\* (and '^'), c the character compared, hit whether it has matched so far;
\* the result also has the pattern after the class.  '\' takes the next
\* character as it is, 'a-z' is a range (in either order), ']' ends the
\* class, and so does the end of the pattern
RECURSIVE GlobClass(_, _, _)
GlobClass(p, c, hit) ==
  IF Len(p) >= 2 /\ Head(p) = 92
  THEN GlobClass(Tail(Tail(p)), c, hit \/ p[2] = c)
  ELSE IF p = <<>> THEN [hit |-> hit, rest |-> <<>>]
  ELSE IF Head(p) = 93 THEN [hit |-> hit, rest |-> Tail(p)]
  ELSE IF Len(p) >= 3 /\ p[2] = 45
       THEN LET lo == IF p[1] <= p[3] THEN p[1] ELSE p[3]
                hi == IF p[1] <= p[3] THEN p[3] ELSE p[1]
            IN  GlobClass(SubSeq(p, 4, Len(p)), c, hit \/ (c >= lo /\ c <= hi))
  ELSE GlobClass(Tail(p), c, hit \/ Head(p) = c)

\* KEYS pattern: '*' matches any run of characters, '?' any one character,
\* '[...]' one character of a class ('[^...]': one outside it), '\' followed
\* by a character that character, and every other character itself
RECURSIVE GlobMatch(_, _)
GlobMatch(p, s) ==
  IF p = <<>> THEN s = <<>>
  ELSE IF Head(p) = 42
       THEN GlobMatch(Tail(p), s) \/ (s # <<>> /\ GlobMatch(p, Tail(s)))
  ELSE IF s = <<>> THEN FALSE
  ELSE IF Head(p) = 63 THEN GlobMatch(Tail(p), Tail(s))
  ELSE IF Head(p) = 91
       THEN LET not  == Len(p) >= 2 /\ p[2] = 94
                body == IF not THEN Tail(Tail(p)) ELSE Tail(p)
                cl   == GlobClass(body, Head(s), FALSE)
            IN  /\ cl.hit # not
                /\ GlobMatch(cl.rest, Tail(s))
  ELSE IF Head(p) = 92 /\ Len(p) >= 2
       THEN p[2] = Head(s) /\ GlobMatch(Tail(Tail(p)), Tail(s))
  ELSE Head(p) = Head(s) /\ GlobMatch(Tail(p), Tail(s))

\* the identifiers of the clients: "10.0.0.1", "10.0.0.10", "10.0.0.2",
\* "10.0.0.1:4242" and "172.16.0.9"
SweepIdents ==
  << <<49, 48, 46, 48, 46, 48, 46, 49>>,
     <<49, 48, 46, 48, 46, 48, 46, 49, 48>>,
     <<49, 48, 46, 48, 46, 48, 46, 50>>,
     <<49, 48, 46, 48, 46, 48, 46, 49, 58, 52, 50, 52, 50>>,
     <<49, 55, 50, 46, 49, 54, 46, 48, 46, 57>> >>

\* the rules "a" and "a1"
SweepRules ==
  << [id |-> <<97>>, windowMs |-> 10, maxRequests |-> 5],
     [id |-> <<97, 49>>, windowMs |-> 10, maxRequests |-> 5] >>

\* the counters: (client, rule), and the key of each
Counters == (1..Len(SweepIdents)) \X (1..Len(SweepRules))
KeyOf(c) == generateRateLimitKey(SweepIdents[c[1]], SweepRules[c[2]])

\* queueCleanupJob and the CLEANUP branch of the processor: the pattern
CleanupPattern(c) == KeyOf(c) \o <<42>>

\* cleanupExpiredKeys(pattern): the counters whose keys are deleted
Swept(store, pattern) == { c \in store : GlobMatch(pattern, KeyOf(c)) }

\* store: the counters that have a key; owner: the counter that denied;
\* found: the counters whose keys redis.keys returned; deleted: the counters
\* whose keys the DELs removed
NoSweep ==
  [pc |-> "idle", store |-> {}, owner |-> <<0, 0>>, pattern |-> <<>>,
   found |-> {}, deleted |-> {}]

\* the connection with nothing on it: no command sent (sent), no reply on
\* its way back (replies); entry is the CacheEntry that
\* RedisService.getCurrentCount returned last
NoOps == [sent |-> <<>>, replies |-> <<>>, entry |-> NoEntry]

\* ------------------------------------------------------------------------
\* RateLimiterMiddleware: the configured rules and the composition
\* ------------------------------------------------------------------------
\* a configuration in which the skipIf of every rule holds for /health
BypassRules ==
  [i \in 1..Len(ServerRules) |-> [ServerRules[i] EXCEPT !.skips = {"/health"}]]

RuleIds == 1..Len(ServerRules)

Slots == 1..MWSlots

Paths == {"/api/data", "/health"}

\* the identifier of the one client, which connects from the loopback
\* address: this.options.keyGenerator(req) gives the address without the
\* port, the keyGenerator of a rule that has its own the address, a colon
\* and the path
ClientIdent == "127.0.0.1"

OwnIdent(path) ==
  IF path = "/health" THEN "127.0.0.1:/health" ELSE "127.0.0.1:/api/data"

Idents == {ClientIdent} \cup { OwnIdent(p) : p \in Paths }

\* the characters of an identifier
IdentString(ident) ==
  CASE ident = "127.0.0.1" -> <<49, 50, 55, 46, 48, 46, 48, 46, 49>>
    [] ident = "127.0.0.1:/health" ->
         <<49, 50, 55, 46, 48, 46, 48, 46, 49, 58, 47, 104, 101, 97, 108, 116, 104>>
    [] ident = "127.0.0.1:/api/data" ->
         <<49, 50, 55, 46, 48, 46, 48, 46, 49, 58, 47, 97, 112, 105, 47, 100, 97,
           116, 97>>

\* the names of the Redis keys: (rule, identifier)
KeyNames == RuleIds \X Idents

\* the result of checkRule for one rule: null ("inert"), its eval not yet
\* run by the store ("pending"), the reply of the store on its way with
\* the count, the reset time and the decision of the script ("evaluated"),
\* rejected ("threw"), or a RateLimitResult ("done")
InertResult ==
  [st |-> "inert", allowed |-> TRUE, remaining |-> 0, hasRetryAfter |-> FALSE,
   retryAfter |-> 0, count |-> 0, resetTime |-> 0]

PendingResult == [InertResult EXCEPT !.st = "pending"]

ThrewResult == [InertResult EXCEPT !.st = "threw"]

\* the options the middleware was constructed with (customCallback: an
\* onLimitReached supplied by the user, which answers with the status code
\* of the rule and sets no header): the defaults of the constructor with
\* the rules of the server, and the options the server passes
DefaultOptions ==
  [rules |-> ServerRules, skipSuccessfulRequests |-> FALSE,
   skipFailedRequests |-> FALSE, legacyHeaders |-> TRUE,
   standardHeaders |-> TRUE, customCallback |-> FALSE]

ServerOptions == [DefaultOptions EXCEPT !.customCallback = TRUE]

SkipSuccessful ==
  [DefaultOptions EXCEPT !.skipSuccessfulRequests = TRUE, !.standardHeaders = FALSE]

SkipFailed ==
  [DefaultOptions EXCEPT !.skipFailedRequests = TRUE, !.legacyHeaders = FALSE,
                         !.customCallback = TRUE]

Bypassing == [DefaultOptions EXCEPT !.rules = BypassRules]

OptionChoices ==
  {DefaultOptions, ServerOptions, SkipSuccessful, SkipFailed, Bypassing}

\* status codes a downstream handler answers with
HandlerStatus == {200, 304, 404}

\* setupPostResponseHandling: shouldRevert for a finished response
ShouldRevert(opts, code) ==
  \/ (code >= 200 /\ code < 300) /\ opts.skipSuccessfulRequests
  \/ code >= 400 /\ opts.skipFailedRequests

\* members of a sorted set with the highest score (ZREVRANGE key 0 0 returns
\* one of them: among equal scores, the one with the greatest member string)
TopMembers(k) == { m \in k.members : \A n \in k.members : n[1] <= m[1] }

\* the Lua script of revertRateLimit on a key alive at the store, removing
\* member m (an emptied sorted set is deleted)
RevertScript(k, m) ==
  LET kept == k.members \ {m}
  IN  IF kept = {} THEN EmptyKey ELSE [k EXCEPT !.members = kept]

\* results.filter(result => result !== null), as the rule numbers in order
RECURSIVE ActiveFrom(_, _)
ActiveFrom(res, i) ==
  IF i > Len(ServerRules) THEN <<>>
  ELSE IF res[i].st = "inert" THEN ActiveFrom(res, i + 1)
       ELSE <<i>> \o ActiveFrom(res, i + 1)

ActiveResults(res) == ActiveFrom(res, 1)

\* activeResults.find(result => !result.allowed), 0 for undefined
RECURSIVE FindBlocked(_, _)
FindBlocked(active, res) ==
  IF active = <<>> THEN 0
  ELSE IF ~res[Head(active)].allowed THEN Head(active)
       ELSE FindBlocked(Tail(active), res)

\* what the middleware did with a request: the blocked result found (0 for
\* none), the result whose decision was used, the status the denial callback
\* was invoked with (0: not invoked), whether next() was called, whether
\* addRateLimitJob rejected, whether the catch block ran, whether the
\* promise the denial callback returned was rejected with nobody to handle
\* it, whether the finish listener was registered, the status code of the
\* response (0: none yet), and the headers set on the response
NoOutcome ==
  [blocked |-> 0, winner |-> 0, status |-> 0, nextCalled |-> FALSE,
   enqueueFailed |-> FALSE, error |-> FALSE, unhandled |-> FALSE,
   hooked |-> FALSE, code |-> 0,
   legacy |-> FALSE, standard |-> FALSE, retryAfterHdr |-> FALSE,
   security |-> FALSE, warning |-> ""]

\* fault: what throws for the request ("ident": options.keyGenerator,
\* "rulekey": the keyGenerator of a rule)
IdleReq ==
  [pc |-> "idle", id |-> 0, path |-> "/api/data", fault |-> "none", t |-> 0,
   res |-> [i \in RuleIds |-> PendingResult], out |-> NoOutcome]

\* the requests that arrive: path and fault
RequestKinds ==
  { [path |-> "/api/data", fault |-> "none"], [path |-> "/health", fault |-> "none"],
    [path |-> "/api/data", fault |-> "ident"],
    [path |-> "/api/data", fault |-> "rulekey"] }

\* queueCleanupJob: the delay of the CLEANUP job enqueued on a denial
cleanupDelay == 60000

\* setupPeriodicCleanup: the recurring job runs every 10 minutes
cleanupPeriod == 600000

\* A job in a queue has the number the queue keeps it under (two jobs added
\* with the same data are two jobs), the queue it waits in, the type and key of its
\* message (rate-limit queue), the pattern its processor passes to
\* cleanupExpiredKeys, the instant it falls due, whether it recurs, and where
\* its processor stands ("waiting": not started, "active": its first
\* command is on the connection, "scanning": redis.keys has
\* answered with the keys found and the pipeline of DELs is on its way).
\* setupPeriodicCleanup: the recurring job of the cleanup queue, with the
\* pattern 'rate_limit:*', before its first run
PeriodicJob ==
  [id |-> 0, queue |-> "cleanup", type |-> "none", key |-> <<>>,
   pattern |-> <<114, 97, 116, 101, 95, 108, 105, 109, 105, 116, 58, 42>>,
   due |-> cleanupPeriod, repeat |-> TRUE, pc |-> "waiting", found |-> {}]

\* pipeline.exec(): DEL of every key found
PipelineDel(keys, found) ==
  [kn \in KeyNames |-> IF kn \in found THEN EmptyKey ELSE keys[kn]]

\* the instant the behaviours start at: one clock step after the earlier
\* requests of the client, which were made at instant 0
MWStartMs == TickMs

\* the key of rule r after n calls of checkRateLimit at instant 0, numbered
\* -1, -2, ...: the script has added a member for each of the first
\* maxRequests calls and set the expiry
AfterCalls(r, n) ==
  LET held == IF n < r.maxRequests THEN n ELSE r.maxRequests
  IN  IF held = 0 THEN EmptyKey
      ELSE [kind |-> "zset",
            members |-> { <<0, 0 - j>> : j \in 1..held },
            entry |-> NoEntry,
            expireAt |-> CeilDiv(r.windowMs, 1000) * 1000]

\* the store after n earlier requests of the client for /api/data, under the
\* rules of the demonstration server
PriorKeys(n) ==
  [kn \in KeyNames |->
     IF kn[2] = (IF ServerRules[kn[1]].ownKey THEN OwnIdent("/api/data")
                 ELSE ClientIdent)
     THEN AfterCalls(ServerRules[kn[1]], n) ELSE EmptyKey]

\* how many requests the client has made before
PriorChoices == {0, 4, 100}

\* history of the middleware: every request so far was admitted by every
\* evaluated rule and answered 2xx, and the store was empty at first; the
\* rule that was reset after denying the client and has not been checked
\* since (0: none), and the number of the first request made after that
\* reset had completed; the rule that blocked the request composed last
\* (0: none); of the reset under way: the rule it resets for the client
\* that the rule was denying (0: none), the number of the next request when
\* it was called, and whether every script sent before had been run
NoHistory ==
  [clean |-> TRUE, fresh |-> 0, since |-> 0, denier |-> 0,
   hit |-> 0, first |-> 0, calm |-> TRUE]

\* the history is kept while requests are handled one at a time
Noted(mode, old, new) == IF mode = "single" THEN new ELSE old

\* ------------------------------------------------------------------------
\* Identifier extraction (HeadersUtil.getClientIdentifier); strings are
\* sequences of character codes.
\* ------------------------------------------------------------------------
\* the class [\r\n\t\x00-\x1f\x7f-\x9f], without the C1 range
IsControl_c0(c) == c <= 31

\* the class [\r\n\t\x00-\x1f\x7f-\x9f]
IsControl(c) == c <= 31 \/ (c >= 127 /\ c <= 159)

\* the white space and line terminators String.prototype.trim removes
IsWhite(c) ==
  \/ c \in {9, 10, 11, 12, 13, 32, 160, 5760, 8232, 8233, 8239, 8287, 12288, 65279}
  \/ c >= 8192 /\ c <= 8202

RECURSIVE TrimStart(_)
TrimStart(str) ==
  IF str # <<>> /\ IsWhite(Head(str)) THEN TrimStart(Tail(str)) ELSE str

RECURSIVE TrimEnd(_)
TrimEnd(str) ==
  IF str # <<>> /\ IsWhite(str[Len(str)])
  THEN TrimEnd(SubSeq(str, 1, Len(str) - 1))
  ELSE str

\* ip.trim()
Trim(str) == TrimEnd(TrimStart(str))

\* str.split(sep): the fields between the separators
RECURSIVE Split(_, _)
Split(str, sep) ==
  IF \A i \in 1..Len(str) : str[i] # sep THEN <<str>>
  ELSE LET i == CHOOSE j \in 1..Len(str) :
                  str[j] = sep /\ \A k \in 1..(j - 1) : str[k] # sep
       IN  <<SubSeq(str, 1, i - 1)>> \o Split(SubSeq(str, i + 1, Len(str)), sep)

IsDigit(c) == c >= 48 /\ c <= 57
IsHex(c) == IsDigit(c) \/ (c >= 97 /\ c <= 102) \/ (c >= 65 /\ c <= 70)

\* 25[0-5]|2[0-4][0-9]|[01]?[0-9][0-9]?
IsOctet(o) ==
  /\ Len(o) \in 1..3
  /\ \A i \in 1..Len(o) : IsDigit(o[i])
  /\ Len(o) = 3 =>
       \/ o[1] \in {48, 49}
       \/ o[1] = 50 /\ o[2] <= 52
       \/ o[1] = 50 /\ o[2] = 53 /\ o[3] <= 53

ipv4Regex(str) ==
  LET f == Split(str, 46)
  IN  Len(f) = 4 /\ \A i \in 1..4 : IsOctet(f[i])

\* ^(?:[0-9a-fA-F]{1,4}:){7}[0-9a-fA-F]{1,4}$|^::1$|^::$
ipv6Regex(str) ==
  LET f == Split(str, 58)
  IN  \/ /\ Len(f) = 8
         /\ \A i \in 1..8 : Len(f[i]) \in 1..4 /\ \A j \in 1..Len(f[i]) : IsHex(f[i][j])
      \/ str = <<58, 58, 49>>
      \/ str = <<58, 58>>

\* 'unknown'
Unknown == <<117, 110, 107, 110, 111, 119, 110>>

\* the longest identifier kept
maxIpLength == 45

IsKept(c) == ~IsControl(c)

sanitizeIpAddress(ip) ==
  LET stripped  == SelectSeq(ip, IsKept)
      sanitized == SubSeq(stripped, 1, IF Len(stripped) < maxIpLength
                                       THEN Len(stripped) ELSE maxIpLength)
  IN  IF ipv4Regex(sanitized) \/ ipv6Regex(sanitized) THEN sanitized
      ELSE IF sanitized = <<>> THEN Unknown ELSE sanitized

\* '::1', '127.0.0.1', 'localhost'
Loopback ==
  { <<58, 58, 49>>, <<49, 50, 55, 46, 48, 46, 48, 46, 49>>,
    <<108, 111, 99, 97, 108, 104, 111, 115, 116>> }

\* a request: the four headers and the peer address as strings ('' when
\* absent), and the peer port (0 when unknown)
getClientIdentifier(req) ==
  IF req.forwarded # <<>>
  THEN sanitizeIpAddress(Trim(Split(req.forwarded, 44)[1]))
  ELSE IF req.realIp # <<>> THEN sanitizeIpAddress(Trim(req.realIp))
  ELSE IF req.clientIp # <<>> THEN sanitizeIpAddress(Trim(req.clientIp))
  ELSE IF req.cfConnectingIp # <<>> THEN sanitizeIpAddress(Trim(req.cfConnectingIp))
  ELSE LET ip == sanitizeIpAddress(IF req.remoteAddress # <<>>
                                   THEN req.remoteAddress ELSE Unknown)
       IN  IF ip \in Loopback THEN ip
           ELSE IF req.remotePort # 0
                THEN ip \o <<58>> \o Decimal(req.remotePort)
                ELSE ip

\* where a client address can come from, in the order of precedence
Sources == {"forwarded", "realIp", "clientIp", "cfConnectingIp", "remoteAddress"}

\* fragments of header values: an IPv4 literal, line breaks and a tab, other
\* control characters, a comma, a space, characters outside the key's class,
\* a long run of letters, and "_4242"
Fragments ==
  { <<49, 48, 46, 48, 46, 48, 46, 55>>,
    <<95, 52, 50, 52, 50>>,
    <<13, 10, 9>>,
    <<0, 31, 127, 159>>,
    <<44>>,
    <<32>>,
    <<58, 233, 95, 45, 90>>,
    [i \in 1..24 |-> 97] }

PeerPorts == {0, 4242}

NoRequest ==
  [forwarded |-> <<>>, realIp |-> <<>>, clientIp |-> <<>>,
   cfConnectingIp |-> <<>>, remoteAddress |-> <<>>, remotePort |-> 0,
   parts |-> 0]

\* the api rule of the demonstration server
IdentRule == [id |-> <<97, 112, 105>>, windowMs |-> 60000, maxRequests |-> 100]

\* the identifier of a request and the key generated from it
Extracted(req) ==
  LET identifier == getClientIdentifier(req)
  IN  [identifier |-> identifier,
       key |-> generateRateLimitKey(identifier, IdentRule)]

\* ------------------------------------------------------------------------
\* The reset endpoint (ApiServer.resetRateLimitRoute).  A field of the
\* request body is absent, a string, or a value of another type; truthy
\* tells what !value sees.  A string names an identifier, or a rule (0 for
\* an id no rule has).
\* ------------------------------------------------------------------------
Absent == [type |-> "undefined", truthy |-> FALSE, val |-> 0]

\* the identifiers a reset is asked for: the address of the client, and
\* the identifier the key generator of the api rule gives its requests
ResetIdents == {ClientIdent, OwnIdent("/api/data")}

IdentifierInputs ==
  {Absent, [type |-> "number", truthy |-> TRUE, val |-> 0]}
  \cup { [type |-> "string", truthy |-> TRUE, val |-> ident] :
           ident \in ResetIdents }

\* a body that names a rule of the server, or no rule
ResetRuleIds ==
  {Absent} \cup { [type |-> "string", truthy |-> TRUE, val |-> i] : i \in RuleIds }

RuleIdInputs ==
  {Absent,
   [type |-> "number", truthy |-> FALSE, val |-> 0],
   [type |-> "number", truthy |-> TRUE, val |-> 0]}
  \cup { [type |-> "string", truthy |-> TRUE, val |-> i] : i \in RuleIds \cup {0} }

\* the rules whose key RateLimiterMiddleware.resetRateLimit deletes
ResetTargets(ruleId) ==
  IF ruleId.truthy
  THEN { i \in RuleIds : ruleId.type = "string" /\ ruleId.val = i }
  ELSE RuleIds

\* the same rules in the order of the loop, one DEL awaited after another
ResetOrder(ruleId) ==
  SelectSeq([i \in RuleIds |-> i], LAMBDA i : i \in ResetTargets(ruleId))

\* CacheService.resetRateLimit(key): DEL, whose error is logged and not
\* rethrown
ResetKey(keys, kn, storeOk) ==
  IF storeOk THEN [keys EXCEPT ![kn] = EmptyKey] ELSE keys

\* the handler up to the call of resetRateLimit: the status it answers with
\* at once (0 when it goes on to the reset)
resetRateLimitRoute(body) ==
  IF ~body.identifier.truthy \/ body.identifier.type # "string"
  THEN 400
  ELSE IF body.ruleId.truthy /\ body.ruleId.type # "string"
  THEN 400
  ELSE 0

\* the endpoint: the status of its last answer (0: none yet) and the body
\* it answered, whether a DEL failed, and where a reset under way stands:
\* the keys of the rules in left are still to be deleted for the identifier
\* ident, the DEL of the first of them being on its way to the store (pc
\* "issued": sent when the next request had the number seq and the reverts
\* in before were outstanding) or run by it (pc "executed": ok when it
\* succeeded) with its reply not yet taken up
NoAnswer ==
  [status |-> 0, body |-> [identifier |-> Absent, ruleId |-> Absent],
   delFailed |-> FALSE, pc |-> "idle", ident |-> ClientIdent, left |-> <<>>,
   seq |-> 0, before |-> {}, ok |-> TRUE]

\* ------------------------------------------------------------------------
\* The local throttle (RateLimiterMiddleware.calculateThrottleDelay and the
\* head of the middleware).
\* ------------------------------------------------------------------------
\* Date.now() counts milliseconds since 1970: it lies far beyond every
\* interval of a rule
EpochMs == 1000000

Min2(a, b) == IF a <= b THEN a ELSE b

\* options.rules as the throttle sees them: the rule with id 'burst', if any
BurstChoices ==
  { [present |-> TRUE, windowMs |-> 3000, maxRequests |-> 1],
    [present |-> TRUE, windowMs |-> 2000, maxRequests |-> 2],
    [present |-> TRUE, windowMs |-> 1000, maxRequests |-> 3],
    [present |-> TRUE, windowMs |-> 1000, maxRequests |-> 0],
    [present |-> FALSE, windowMs |-> 0, maxRequests |-> 0] }

\* options.maxThrottleDelay: the default, and the demonstration server's
MaxDelayChoices == {1000, 500}

\* throttleMap.get(identifier) of an identifier without an entry
NoEntryYet == -1

\* cleanupThrottleMap: the size beyond which the map is swept, and the age
\* beyond which an entry is deleted
throttleMapLimit == 1000
throttleMaxAge == 60000

\* A number of milliseconds that need not be whole: windowMs / maxRequests
\* is a division of doubles.  It is kept as the fraction num / den, den > 0.
Whole(n) == [num |-> n, den |-> 1]

FracEq(a, b) == a.num * b.den = b.num * a.den

FracLeq(a, b) == a.num * b.den <= b.num * a.den

\* the entries of the clients that are not followed one by one: old of them
\* were written at StaleMs, fresh of them at EpochMs
StaleMs == EpochMs - 70000

NoOthers == [old |-> 0, fresh |-> 0]

\* the stores of throttleMap at the start: empty, or one or two entries
\* short of the size at which the map is swept
OthersChoices ==
  {NoOthers, [old |-> 1, fresh |-> throttleMapLimit - 1],
   [old |-> 1, fresh |-> throttleMapLimit - 2]}

\* this.throttleMap.size
ThrottleMapSize(map, others) ==
  Cardinality({ ident \in DOMAIN map : map[ident] # NoEntryYet })
    + others.old + others.fresh

\* cleanupThrottleMap at Date.now() = t: once the map holds more than
\* throttleMapLimit entries, every entry older than throttleMaxAge goes
cleanupThrottleMap(map, others, t) ==
  LET cutoff == t - throttleMaxAge
  IN  IF ThrottleMapSize(map, others) > throttleMapLimit
      THEN [map |-> [ident \in DOMAIN map |->
                       IF map[ident] # NoEntryYet /\ map[ident] < cutoff
                       THEN NoEntryYet ELSE map[ident]],
            others |-> [old |-> IF StaleMs < cutoff THEN 0 ELSE others.old,
                        fresh |-> IF EpochMs < cutoff THEN 0 ELSE others.fresh]]
      ELSE [map |-> map, others |-> others]

\* calculateThrottleDelay(identifier) at Date.now() = t: the delay, and the
\* map it leaves (without a burst rule, or with maxRequests 0, it returns
\* before it writes)
calculateThrottleDelay(map, others, identifier, burst, t) ==
  LET entry == map[identifier]
      lastRequest == IF entry = NoEntryYet THEN 0 ELSE entry
      timeSinceLastRequest == t - lastRequest
      swept == cleanupThrottleMap([map EXCEPT ![identifier] = t], others, t)
  IN  IF ~burst.present \/ burst.maxRequests = 0
      THEN [delay |-> Whole(0), map |-> map, others |-> others]
      ELSE [delay |-> [num |-> Max2(0, burst.windowMs
                                       - burst.maxRequests * timeSinceLastRequest),
                       den |-> burst.maxRequests],
            map |-> swept.map, others |-> swept.others]

\* the time the middleware waits, without the cap
ThrottleWait_uncapped(delay, maxThrottleDelay) == delay

\* the time the middleware waits: Math.min(throttleDelay, maxThrottleDelay)
\* when throttleDelay > 0
ThrottleWait(delay, maxThrottleDelay) ==
  IF delay.num > 0
  THEN IF FracLeq(delay, Whole(maxThrottleDelay)) THEN delay
       ELSE Whole(maxThrottleDelay)
  ELSE Whole(0)

\* what the throttle did to a request: the entry it found, the time it
\* read, the delay computed, the time waited, and the status it answered
\* with (0: none, the request goes on to the rules)
NoThrottled ==
  [identifier |-> "none", found |-> NoEntryYet, at |-> 0, delay |-> Whole(0),
   wait |-> Whole(0), status |-> 0]

NoThrottle ==
  [burst |-> CHOOSE b \in BurstChoices : ~b.present, maxThrottleDelay |-> 1000,
   map |-> [ident \in Idents |-> NoEntryYet], others |-> NoOthers,
   seen |-> NoThrottled]

\* ------------------------------------------------------------------------
\* The worker (RateLimitWorker) and its graceful shutdown.
\* ------------------------------------------------------------------------
\* waitForJobsToComplete(30000), and the pause between two polls
shutdownTimeout == 30000
pollInterval == 1000

\* every SIGTERM or SIGINT starts a run of the shutdown closure of
\* setupGracefulShutdown: the runs a process can see
ShutdownRuns == {1, 2}

\* a run of the shutdown closure.  pc: where it stands ("idle": not
\* started); start: Date.now() at the head of waitForJobsToComplete; wake:
\* when the pause between two polls ends
NewRun == [pc |-> "idle", start |-> 0, wake |-> 0]

\* active: jobs being processed on the two queues; exit: the code passed to
\* process.exit ("none" while the process runs)
NewWorker ==
  [isShuttingDown |-> FALSE, paused |-> FALSE, active |-> 0,
   queuesClosed |-> FALSE, storeClosed |-> FALSE, exit |-> "none",
   run |-> [c \in ShutdownRuns |-> NewRun]]

\* ------------------------------------------------------------------------
\* The choice among the results of one request, for the rules of the
\* demonstration server (limits 1000, 100, 5 and 10).
\* ------------------------------------------------------------------------
PickRules == ServerRules

\* the callback of activeResults.reduce, for the rules given
TighterOf(rules, most, current) ==
  IF rules[current].maxRequests < rules[most].maxRequests THEN current ELSE most

\* activeResults.reduce(...) without initial value, on a non-empty array
RECURSIVE ReduceOf(_, _, _)
ReduceOf(rules, most, rest) ==
  IF rest = <<>> THEN most
  ELSE ReduceOf(rules, TighterOf(rules, most, Head(rest)), Tail(rest))

FinalResultOf(rules, active) == ReduceOf(rules, Head(active), Tail(active))

\* the result checkRule returns at instant t for rule r whose key holds
\* count requests once the script has run: the request was counted, or was
\* denied at the limit
ResultOf(r, count, t) ==
  LET allowed == count <= r.maxRequests
      shown   == IF allowed THEN count ELSE r.maxRequests
      b       == buildResult([count |-> shown, resetTime |-> t + r.windowMs,
                              createdAt |-> t], r, allowed, t)
  IN  [st |-> "done", allowed |-> b.allowed, remaining |-> b.remainingRequests,
       hasRetryAfter |-> b.hasRetryAfter, retryAfter |-> b.retryAfter,
       count |-> shown, resetTime |-> b.resetTime]

\* the results one rule can give at instant t: skipped when the rule has a
\* skipIf, the first request of a window, the last two the limit admits, or
\* one beyond the limit
ResultChoices(r, t) ==
  (IF r.skips = {} THEN {} ELSE {InertResult})
    \cup { ResultOf(r, c, t)
             : c \in {1, r.maxRequests - 1, r.maxRequests, r.maxRequests + 1} }

NoPick ==
  [res |-> [i \in 1..Len(PickRules) |-> InertResult], composed |-> FALSE,
   blocked |-> 0, winner |-> 0]

\* the headers of a response under one rule: the decision they are set
\* from (none when a callback of the user answers the denial)
\* requests of the client that can be in the middleware at once
WarnSlots == {1, 2}

\* a request outside the middleware; inside, it waits for the script
\* ("pending"), for its reply to be taken up ("evaluated", with the reply),
\* for queueCleanupJob ("enqueuing"), or for its response to finish
\* ("handling")
IdleFlight == [pc |-> "idle", allowed |-> TRUE, count |-> 0, enqueueOk |-> TRUE]

NoHeaders ==
  [limit |-> 1, count |-> 0, opts |-> DefaultOptions,
   flight |-> [s \in WarnSlots |-> IdleFlight],
   evals |-> <<>>, replies |-> <<>>,
   seen |-> [responded |-> FALSE, fromDecision |-> FALSE, allowed |-> TRUE,
             remaining |-> 0, warning |-> ""]]

\* ------------------------------------------------------------------------
\* State
\* ------------------------------------------------------------------------
VARIABLES
  now,                    \* Date.now(), also the store's clock
  rule,                   \* the rule under which the key is checked
  enableInMemoryFallback, \* CacheService.enableInMemoryFallback
  faultMode,              \* "up": the store answers; "down": every command
                          \* fails; "flaky": each command may fail
  key,                    \* the Redis key of (rule, client)
  localCache,             \* CacheService.localCache entry of the key
  cb,                     \* CacheService.circuitBreaker
  calls,                  \* per caller: position inside checkRateLimit
  log,                    \* decisions returned so far
  nextId,                 \* number of the next call (its unique requestId)
  overlap,                \* some call started while another was in flight
  streak,                 \* operations that failed since the last success
  ret,                    \* what the last finished execute() returned
  last,                   \* the RateLimitResult the fallback closure returned last
  reqs,                   \* per slot: the request the middleware is handling
  mwKeys,                 \* the Redis keys, by (rule, identifier)
  mwNext,                 \* number of the next request
  mwOpts,                 \* RateLimiterMiddleware.options
  mwReverts,              \* revert scripts issued and not yet run by the store
  mwHist,                 \* history of the requests handled so far
  mwMode,                 \* "concurrent": requests for /api/data and /health
                          \* overlap, nothing throws and handlers answer 200;
                          \* "single": one request at a time, of every kind
                          \* and with every status
  mwJobs,                 \* cleanup jobs waiting in the queues
  kgRules,                \* two rule configurations
  kgKeys,                 \* the keys generated for them (<<>>: not yet)
  idReq,                  \* the request whose client is identified
  idOut,                  \* its identifier and the key generated from it
  admin,                  \* the last answer of the reset endpoint
  worker,                 \* RateLimitWorker and its two queues
  sweep,                  \* the keys of several clients and one CLEANUP job
  pick,                   \* the results of the rules for one request, and
                          \* the decision taken from them
  hdr,                    \* one rule with its count for a client, and the
                          \* headers of the last response
  throttle,               \* RateLimiterMiddleware.throttleMap and options, and
                          \* what the throttle did to the last request
  ops                     \* the connection to the store under calls that no
                          \* route of the server makes: the commands sent
                          \* and the replies on their way back

vars == <<now, rule, enableInMemoryFallback, faultMode, key, localCache, cb,
          calls, log, nextId, overlap, streak, ret, last, reqs, mwKeys,
          mwNext, mwOpts, mwReverts, mwHist, mwMode, mwJobs, kgRules, kgKeys,
          idReq, idOut, admin, worker, sweep, pick, hdr, throttle, ops>>

\* variables that only the breaker specification moves
cbAux == <<streak, ret, last>>

\* variables that only the key-generation specification moves
kgVars == <<kgRules, kgKeys, idReq, idOut>>

\* variables of the reset endpoint, of the worker, of the choice among
\* results, of the responses under one rule and of the local throttle
sideVars == <<admin, worker, sweep, pick, hdr, throttle, ops>>

\* variables that only the middleware specification moves
mwVars == <<reqs, mwKeys, mwNext, mwOpts, mwReverts, mwHist, mwMode, mwJobs>>

\* ------------------------------------------------------------------------
\* RateLimiterMiddleware: what depends on the rules it was constructed with
\* ------------------------------------------------------------------------
\* this.options.rules
MWRules == mwOpts.rules

\* a rule that is never skipped
SkipIf_never(i, path) == FALSE

\* rule.skipIf && rule.skipIf(req)
SkipIf(i, path) == path \in MWRules[i].skips

\* result.rule.statusCode || 429
StatusCode(i) == IF MWRules[i].statusCode = 0 THEN 429 ELSE MWRules[i].statusCode

\* the identifier checkRule builds the key of rule i from
RuleIdent(i, path) == IF MWRules[i].ownKey THEN OwnIdent(path) ELSE ClientIdent

\* the key at the store: HeadersUtil.generateRateLimitKey(identifier, rule)
KeyString(kn) == generateRateLimitKey(IdentString(kn[2]), MWRules[kn[1]])

\* the reduce callback keeping the rule with the larger limit
Tighter_loosest(most, current) ==
  IF MWRules[current].maxRequests > MWRules[most].maxRequests THEN current ELSE most

\* the callback of activeResults.reduce
Tighter(most, current) ==
  IF MWRules[current].maxRequests < MWRules[most].maxRequests THEN current ELSE most

\* activeResults.reduce(...) without initial value, on a non-empty array
RECURSIVE ReduceFrom(_, _)
ReduceFrom(most, rest) ==
  IF rest = <<>> THEN most
  ELSE ReduceFrom(Tighter(most, Head(rest)), Tail(rest))

FinalResult(active) == ReduceFrom(Head(active), Tail(active))

\* the CLEANUP job enqueued at t for request id, which rule i denied: the
\* processor appends '*' to the key built from the identifier of
\* options.keyGenerator; the queue keeps every job added, under a number of
\* its own
CleanupJob(i, t, id) ==
  [id |-> id, queue |-> "rate-limit", type |-> "CLEANUP",
   key |-> KeyString(<<i, ClientIdent>>),
   pattern |-> KeyString(<<i, ClientIdent>>) \o <<42>>,
   due |-> t + cleanupDelay, repeat |-> FALSE, pc |-> "waiting", found |-> {}]

\* redis.keys(pattern): whether the key named kn matches
Matches(kn, pattern) == GlobMatch(pattern, KeyString(kn))

\* redis.keys(pattern) at store time t: the keys that exist and match
RedisKeys(keys, pattern, t) ==
  { kn \in KeyNames : Live(keys[kn], t).kind # "none" /\ Matches(kn, pattern) }

IdleCall ==
  [pc |-> "idle", t |-> 0, id |-> 0, arrival |-> 0, data |-> NoEntry,
   allowed |-> "absent", path |-> "none", err |-> FALSE, probe |-> FALSE]

\* id of the call (0 when its operation was invoked), whose result it got
\* ("primary" or "fallback"), and whether operation() was invoked
NoReturn == [id |-> 0, via |-> "none", ran |-> FALSE]

NoLocal == [found |-> FALSE, entry |-> NoEntry]

\* CacheService.localCacheTTL: the period of the interval that sweeps the
\* local cache (LOCAL_CACHE_TTL unset)
localCacheTTL == 60000

\* the callback of the interval of startLocalCacheCleanup at Date.now() = t:
\* an entry whose resetTime has passed is deleted
startLocalCacheCleanup(lc, t) ==
  IF lc.found /\ t > lc.entry.resetTime THEN NoLocal ELSE lc

\* the local cache once the clock has gone from t0 to t1 with nothing else
\* happening: the interval, set by the constructor at instant 0, has fired
\* at every multiple of localCacheTTL in between
SweptLocalCache(lc, t0, t1) ==
  LET fired == FloorDiv(t1, localCacheTTL) * localCacheTTL
  IN  IF fired > t0 THEN startLocalCacheCleanup(lc, fired) ELSE lc

\* no RateLimitResult yet
NoResult ==
  [allowed |-> TRUE, totalRequests |-> 0, remainingRequests |-> 0, resetTime |-> 0,
   hasRetryAfter |-> FALSE, retryAfter |-> 0]

\* buildDefaultResult with a reset time of Date.now()
FallbackClosure_noWindow(lc, r, inMemory, t) ==
  IF inMemory
  THEN LET data == InMemoryData(lc.found, lc.entry, r, t)
       IN  [localCache |-> [found |-> TRUE, entry |-> data],
            result |-> buildResult(data, r, InMemoryAllowed(data, r), t)]
  ELSE [localCache |-> lc,
        result |-> [buildDefaultResult(r, TRUE, t) EXCEPT !.resetTime = t]]

\* the fallback closure of checkRateLimit, with Date.now() = t: the local
\* cache entry it leaves and the result it returns
FallbackClosure(lc, r, inMemory, t) ==
  IF inMemory
  THEN LET data == InMemoryData(lc.found, lc.entry, r, t)
       IN  [localCache |-> [found |-> TRUE, entry |-> data],
            result |-> buildResult(data, r, InMemoryAllowed(data, r), t)]
  ELSE [localCache |-> lc, result |-> buildDefaultResult(r, TRUE, t)]

CallBudget == IF faultMode = "flaky" THEN FlakyCalls ELSE MaxCalls
Horizon == IF faultMode = "flaky" THEN FlakyTicks * TickMs ELSE MaxNow

CanFail == faultMode # "up"
CanSucceed == faultMode # "down"

Busy == { c \in Callers : calls[c].pc # "idle" }

\* what is recorded of a returned decision
Decision(id, arrival, res, path, err) ==
  [id |-> id, arrival |-> arrival, allowed |-> res.allowed,
   count |-> res.totalRequests, path |-> path, err |-> err]

Init ==
  /\ now = 0
  /\ rule \in RuleChoices
  /\ enableInMemoryFallback \in BOOLEAN
  /\ faultMode \in {"up", "down"}
  /\ key = EmptyKey
  /\ localCache = NoLocal
  /\ cb = NewBreaker
  /\ calls = [c \in Callers |-> IdleCall]
  /\ log = {}
  /\ nextId = 1
  /\ overlap = FALSE
  /\ streak = 0
  /\ ret = NoReturn
  /\ last = NoResult
  /\ reqs = [r \in Slots |-> IdleReq]
  /\ mwKeys = [k \in KeyNames |-> EmptyKey]
  /\ mwNext = 1
  /\ mwOpts = DefaultOptions
  /\ mwReverts = {}
  /\ mwHist = NoHistory
  /\ mwMode = "concurrent"
  /\ mwJobs = {}
  /\ kgRules = NoConfigs
  /\ kgKeys = <<>>
  /\ idReq = NoRequest
  /\ idOut = Extracted(NoRequest)
  /\ admin = NoAnswer
  /\ worker = NewWorker
  /\ ops = NoOps
  /\ sweep = NoSweep
  /\ pick = NoPick
  /\ hdr = NoHeaders
  /\ throttle = NoThrottle

\* the clock advances
Tick ==
  /\ now < Horizon
  /\ now' = now + TickMs
  /\ localCache' = SweptLocalCache(localCache, now, now')
  /\ UNCHANGED <<rule, enableInMemoryFallback, faultMode, key, cb,
                 calls, log, nextId, overlap>>
  /\ UNCHANGED <<cbAux, mwVars, kgVars, sideVars>>

\* callers are interchangeable: a new call takes the first caller that is free
FirstIdle(c) == \A d \in Callers : d < c => calls[d].pc # "idle"

\* CacheService.checkRateLimit up to its first await: the head of
\* CircuitBreaker.execute, then either the fallback closure (which runs to
\* completion) or slidingWindowCheck up to redis.eval
checkRateLimit(c) ==
  /\ calls[c].pc = "idle"
  /\ FirstIdle(c)
  /\ nextId' = nextId + 1
  /\ cb' = Gate(cb, now)
  /\ overlap' = (overlap \/ Busy # {})
  /\ IF RunsPrimary(cb, now)
     THEN /\ calls' = [calls EXCEPT ![c] =
                 [IdleCall EXCEPT !.pc = "sliding", !.t = now, !.id = nextId,
                                  !.arrival = now,
                                  !.probe = (cb.state = "OPEN")]]
          /\ UNCHANGED <<localCache, log>>
     ELSE LET data == InMemoryData(localCache.found, localCache.entry, rule, now)
              res  == IF enableInMemoryFallback
                      THEN buildResult(data, rule, InMemoryAllowed(data, rule), now)
                      ELSE buildDefaultResult(rule, TRUE, now)
          IN  /\ localCache' = IF enableInMemoryFallback
                               THEN [found |-> TRUE, entry |-> data]
                               ELSE localCache
              /\ log' = log \cup
                   {Decision(nextId, now, res,
                             IF enableInMemoryFallback THEN "memory" ELSE "default",
                             FALSE)}
              /\ UNCHANGED calls
  /\ UNCHANGED <<now, rule, enableInMemoryFallback, faultMode, key>>
  /\ UNCHANGED <<cbAux, mwVars, kgVars, sideVars>>

\* a call is made while the budget of the behaviour lasts
Execute(c) ==
  /\ nextId <= CallBudget
  /\ checkRateLimit(c)

\* the store runs the sliding-window script of the call
SlidingEval(c) ==
  /\ calls[c].pc = "sliding"
  /\ CanSucceed
  /\ Live(key, now).kind # "string"
  /\ LET r == SlidingScript(key, calls[c].t, rule, TRUE, calls[c].id, now)
     IN  /\ key' = r.key
         /\ calls' = [calls EXCEPT ![c].pc = "reply", ![c].data = r.data,
                        ![c].allowed = IF r.allowed THEN "true" ELSE "false",
                        ![c].path = "sliding"]
  /\ UNCHANGED <<now, rule, enableInMemoryFallback, faultMode, localCache, cb,
                 log, nextId, overlap>>
  /\ UNCHANGED <<cbAux, mwVars, kgVars, sideVars>>

\* redis.eval of the sliding script rejects (transport error, or WRONGTYPE
\* on a string key): the catch block enters incrementCounterFixedWindow
SlidingError(c) ==
  /\ calls[c].pc = "sliding"
  /\ CanFail \/ Live(key, now).kind = "string"
  /\ calls' = [calls EXCEPT ![c].pc = "fixed", ![c].t = now, ![c].err = TRUE]
  /\ UNCHANGED <<now, rule, enableInMemoryFallback, faultMode, key, localCache,
                 cb, log, nextId, overlap>>
  /\ UNCHANGED <<cbAux, mwVars, kgVars, sideVars>>

\* the store runs the fixed-window script of the call
FixedEval(c) ==
  /\ calls[c].pc = "fixed"
  /\ CanSucceed
  /\ Live(key, now).kind # "zset"
  /\ LET r == FixedScript(key, calls[c].t, rule, now)
     IN  /\ key' = r.key
         /\ calls' = [calls EXCEPT ![c].pc = "reply", ![c].data = r.data,
                        ![c].allowed = IF r.allowed THEN "true" ELSE "false",
                        ![c].path = "fixed"]
  /\ UNCHANGED <<now, rule, enableInMemoryFallback, faultMode, localCache, cb,
                 log, nextId, overlap>>
  /\ UNCHANGED <<cbAux, mwVars, kgVars, sideVars>>

\* redis.eval of the fixed script rejects (transport error, or WRONGTYPE on
\* a sorted set): the catch block enters incrementCounterFallback
FixedError(c) ==
  /\ calls[c].pc = "fixed"
  /\ CanFail \/ Live(key, now).kind = "zset"
  /\ calls' = [calls EXCEPT ![c].pc = "fbget", ![c].t = now]
  /\ UNCHANGED <<now, rule, enableInMemoryFallback, faultMode, key, localCache,
                 cb, log, nextId, overlap>>
  /\ UNCHANGED <<cbAux, mwVars, kgVars, sideVars>>

\* incrementCounterFallback: getRateLimitData returns the stored entry, or
\* null when the key is missing or GET fails
FallbackGet(c) ==
  /\ calls[c].pc = "fbget"
  /\ \E ok \in BOOLEAN :
       /\ ok => CanSucceed /\ Live(key, now).kind # "zset"
       /\ ~ok => CanFail \/ Live(key, now).kind = "zset"
       /\ LET k == Live(key, now)
              found == ok /\ k.kind = "string"
          IN  calls' = [calls EXCEPT ![c].pc = "fbset",
                          ![c].data = FallbackData(found, k.entry, calls[c].t, rule)]
  /\ UNCHANGED <<now, rule, enableInMemoryFallback, faultMode, key, localCache,
                 cb, log, nextId, overlap>>
  /\ UNCHANGED <<cbAux, mwVars, kgVars, sideVars>>

\* incrementCounterFallback: setRateLimitData writes the entry, or swallows
\* the error of SETEX
FallbackSet(c) ==
  /\ calls[c].pc = "fbset"
  /\ \E ok \in BOOLEAN :
       /\ ok => CanSucceed
       /\ ~ok => CanFail
       /\ key' = IF ok
                 THEN SetEx(CeilDiv(CeilDiv(calls[c].data.resetTime - calls[c].t, 1), 1000),
                            calls[c].data, now)
                 ELSE key
  /\ calls' = [calls EXCEPT ![c].pc = "reply", ![c].allowed = "absent",
                 ![c].path = "redisFallback"]
  /\ UNCHANGED <<now, rule, enableInMemoryFallback, faultMode, localCache, cb,
                 log, nextId, overlap>>
  /\ UNCHANGED <<cbAux, mwVars, kgVars, sideVars>>

\* the allowed flag slidingWindowCheck returns for the reply of the call
ReplyAllowed(call) ==
  IF call.allowed = "absent"
  THEN call.data.count <= rule.maxRequests
  ELSE call.allowed = "true"

\* slidingWindowCheck resolves: execute() runs onSuccess and the operation
\* closure builds the result
Complete(c) ==
  /\ calls[c].pc = "reply"
  /\ cb' = onSuccess(cb)
  /\ log' = log \cup
        {Decision(calls[c].id, calls[c].arrival,
                  buildResult(calls[c].data, rule, ReplyAllowed(calls[c]), now),
                  calls[c].path, calls[c].err)}
  /\ calls' = [calls EXCEPT ![c] = IdleCall]
  /\ UNCHANGED <<now, rule, enableInMemoryFallback, faultMode, key, localCache,
                 nextId, overlap>>
  /\ UNCHANGED <<cbAux, mwVars, kgVars, sideVars>>

\* The store is reachable throughout, or unreachable throughout.
Next ==
  \/ Tick
  \/ \E c \in Callers : Execute(c)
  \/ \E c \in Callers : SlidingEval(c)
  \/ \E c \in Callers : SlidingError(c)
  \/ \E c \in Callers : FixedError(c)
  \/ \E c \in Callers : FallbackGet(c)
  \/ \E c \in Callers : FallbackSet(c)
  \/ \E c \in Callers : Complete(c)

Spec == Init /\ [][Next]_vars

\* Each store command may fail on its own.
InitFlaky ==
  /\ now = 0
  /\ rule \in RuleChoices
  /\ enableInMemoryFallback = FALSE
  /\ faultMode = "flaky"
  /\ key = EmptyKey
  /\ localCache = NoLocal
  /\ cb = NewBreaker
  /\ calls = [c \in Callers |-> IdleCall]
  /\ log = {}
  /\ nextId = 1
  /\ overlap = FALSE
  /\ streak = 0
  /\ ret = NoReturn
  /\ last = NoResult
  /\ reqs = [r \in Slots |-> IdleReq]
  /\ mwKeys = [k \in KeyNames |-> EmptyKey]
  /\ mwNext = 1
  /\ mwOpts = DefaultOptions
  /\ mwReverts = {}
  /\ mwHist = NoHistory
  /\ mwMode = "concurrent"
  /\ mwJobs = {}
  /\ kgRules = NoConfigs
  /\ kgKeys = <<>>
  /\ idReq = NoRequest
  /\ idOut = Extracted(NoRequest)
  /\ admin = NoAnswer
  /\ worker = NewWorker
  /\ ops = NoOps
  /\ sweep = NoSweep
  /\ pick = NoPick
  /\ hdr = NoHeaders
  /\ throttle = NoThrottle

NextFlaky ==
  \/ Tick
  \/ \E c \in Callers : Execute(c)
  \/ \E c \in Callers : SlidingEval(c)
  \/ \E c \in Callers : SlidingError(c)
  \/ \E c \in Callers : FixedEval(c)
  \/ \E c \in Callers : FixedError(c)
  \/ \E c \in Callers : FallbackGet(c)
  \/ \E c \in Callers : FallbackSet(c)
  \/ \E c \in Callers : Complete(c)

SpecFlaky == InitFlaky /\ [][NextFlaky]_vars

\* One client that waits for each decision before it makes the next call,
\* with the store reachable; the clock may advance at any point of a call.
InitSerial ==
  /\ now = 0
  /\ rule \in RuleChoices
  /\ enableInMemoryFallback = FALSE
  /\ faultMode = "up"
  /\ key = EmptyKey
  /\ localCache = NoLocal
  /\ cb = NewBreaker
  /\ calls = [c \in Callers |-> IdleCall]
  /\ log = {}
  /\ nextId = 1
  /\ overlap = FALSE
  /\ streak = 0
  /\ ret = NoReturn
  /\ last = NoResult
  /\ reqs = [r \in Slots |-> IdleReq]
  /\ mwKeys = [k \in KeyNames |-> EmptyKey]
  /\ mwNext = 1
  /\ mwOpts = DefaultOptions
  /\ mwReverts = {}
  /\ mwHist = NoHistory
  /\ mwMode = "concurrent"
  /\ mwJobs = {}
  /\ kgRules = NoConfigs
  /\ kgKeys = <<>>
  /\ idReq = NoRequest
  /\ idOut = Extracted(NoRequest)
  /\ admin = NoAnswer
  /\ worker = NewWorker
  /\ ops = NoOps
  /\ sweep = NoSweep
  /\ pick = NoPick
  /\ hdr = NoHeaders
  /\ throttle = NoThrottle

SerialTick ==
  /\ now < SerialTicks * TickMs
  /\ now' = now + TickMs
  /\ localCache' = SweptLocalCache(localCache, now, now')
  /\ UNCHANGED <<rule, enableInMemoryFallback, faultMode, key, cb,
                 calls, log, nextId, overlap>>
  /\ UNCHANGED <<cbAux, mwVars, kgVars, sideVars>>

SerialCall ==
  /\ Busy = {}
  /\ nextId <= SerialCalls
  /\ checkRateLimit(1)

NextSerial ==
  \/ SerialTick
  \/ SerialCall
  \/ SlidingEval(1)
  \/ Complete(1)

SpecSerial == InitSerial /\ [][NextSerial]_vars

\* ------------------------------------------------------------------------
\* One client's serial calls under a rule configured with algorithm
\* 'fixed', the store reachable.
\* ------------------------------------------------------------------------
\* RateLimitRule.algorithm?: 'fixed' | 'sliding'
FixedRules == { [r EXCEPT !.algorithm = "fixed"] : r \in RuleChoices }

InitFixed ==
  /\ now = 0
  /\ rule \in FixedRules
  /\ enableInMemoryFallback = FALSE
  /\ faultMode = "up"
  /\ key = EmptyKey
  /\ localCache = NoLocal
  /\ cb = NewBreaker
  /\ calls = [c \in Callers |-> IdleCall]
  /\ log = {}
  /\ nextId = 1
  /\ overlap = FALSE
  /\ streak = 0
  /\ ret = NoReturn
  /\ last = NoResult
  /\ reqs = [r \in Slots |-> IdleReq]
  /\ mwKeys = [k \in KeyNames |-> EmptyKey]
  /\ mwNext = 1
  /\ mwOpts = DefaultOptions
  /\ mwReverts = {}
  /\ mwHist = NoHistory
  /\ mwMode = "concurrent"
  /\ mwJobs = {}
  /\ kgRules = NoConfigs
  /\ kgKeys = <<>>
  /\ idReq = NoRequest
  /\ idOut = Extracted(NoRequest)
  /\ admin = NoAnswer
  /\ worker = NewWorker
  /\ ops = NoOps
  /\ sweep = NoSweep
  /\ pick = NoPick
  /\ hdr = NoHeaders
  /\ throttle = NoThrottle

SpecFixed == InitFixed /\ [][NextSerial]_vars

\* ------------------------------------------------------------------------
\* The circuit breaker as CacheService.checkRateLimit drives it:
\* execute(operation, fallback) called by concurrent callers, with an
\* operation that resolves or rejects and the fallback closure of the cache.
\* ------------------------------------------------------------------------
CBMaxNow == 2 * recoveryTimeout + CBTicks * TickMs

InitCB ==
  /\ now = 0
  /\ rule \in {BurstRule, PairRule}
  /\ enableInMemoryFallback \in BOOLEAN
  /\ faultMode = "up"
  /\ key = EmptyKey
  /\ localCache = NoLocal
  /\ cb = NewBreaker
  /\ calls = [c \in Callers |-> IdleCall]
  /\ log = {}
  /\ nextId = 1
  /\ overlap = FALSE
  /\ streak = 0
  /\ ret = NoReturn
  /\ last = NoResult
  /\ reqs = [r \in Slots |-> IdleReq]
  /\ mwKeys = [k \in KeyNames |-> EmptyKey]
  /\ mwNext = 1
  /\ mwOpts = DefaultOptions
  /\ mwReverts = {}
  /\ mwHist = NoHistory
  /\ mwMode = "concurrent"
  /\ mwJobs = {}
  /\ kgRules = NoConfigs
  /\ kgKeys = <<>>
  /\ idReq = NoRequest
  /\ idOut = Extracted(NoRequest)
  /\ admin = NoAnswer
  /\ worker = NewWorker
  /\ ops = NoOps
  /\ sweep = NoSweep
  /\ pick = NoPick
  /\ hdr = NoHeaders
  /\ throttle = NoThrottle

cbFrame == <<rule, enableInMemoryFallback, faultMode, key, log, overlap, mwVars,
             kgVars, sideVars>>

\* the clock advances by a short step or by the recovery timeout; the
\* interval that sweeps the local cache fires when its period has passed
CBTick ==
  /\ \E d \in {TickMs, recoveryTimeout} :
       /\ now + d <= CBMaxNow
       /\ d = TickMs => (now % recoveryTimeout) + d <= CBTicks * TickMs
       /\ now' = now + d
  /\ localCache' = SweptLocalCache(localCache, now, now')
  /\ UNCHANGED <<cb, calls, nextId, streak, ret, last>>
  /\ UNCHANGED cbFrame

\* execute() up to the await of operation(), or to the return of fallback()
CBExecute(c) ==
  /\ calls[c].pc = "idle"
  /\ FirstIdle(c)
  /\ nextId <= CBMaxCalls
  /\ nextId' = nextId + 1
  /\ cb' = Gate(cb, now)
  /\ IF RunsPrimary(cb, now)
     THEN /\ calls' = [calls EXCEPT ![c] =
                 [IdleCall EXCEPT !.pc = "op", !.probe = (cb.state = "OPEN")]]
          /\ UNCHANGED <<ret, last, localCache>>
     ELSE LET f == FallbackClosure(localCache, rule, enableInMemoryFallback, now)
          IN  /\ ret' = [id |-> nextId, via |-> "fallback", ran |-> FALSE]
              /\ last' = f.result
              /\ localCache' = f.localCache
              /\ calls' = calls
  /\ UNCHANGED <<now, streak>>
  /\ UNCHANGED cbFrame

\* operation() resolves: onSuccess, and its result is returned
CBSucceed(c) ==
  /\ calls[c].pc = "op"
  /\ cb' = onSuccess(cb)
  /\ streak' = 0
  /\ ret' = [id |-> calls[c].id, via |-> "primary", ran |-> TRUE]
  /\ calls' = [calls EXCEPT ![c] = IdleCall]
  /\ UNCHANGED <<now, nextId, last, localCache>>
  /\ UNCHANGED cbFrame

\* operation() rejects: onFailure, and the result of fallback() is returned
CBFail(c) ==
  /\ calls[c].pc = "op"
  /\ cb' = onFailure(cb, now)
  /\ streak' = streak + 1
  /\ ret' = [id |-> calls[c].id, via |-> "fallback", ran |-> TRUE]
  /\ LET f == FallbackClosure(localCache, rule, enableInMemoryFallback, now)
     IN  /\ last' = f.result
         /\ localCache' = f.localCache
  /\ calls' = [calls EXCEPT ![c] = IdleCall]
  /\ UNCHANGED <<now, nextId>>
  /\ UNCHANGED cbFrame

NextCB ==
  \/ CBTick
  \/ \E c \in Callers : CBExecute(c)
  \/ \E c \in Callers : CBSucceed(c)
  \/ \E c \in Callers : CBFail(c)

SpecCB == InitCB /\ [][NextCB]_vars

\* ------------------------------------------------------------------------
\* The middleware: concurrent requests of one client, each checked against
\* every configured rule (store reachable), then composed.  The client has
\* made some requests before.  The middleware has its default options, so
\* that no response is followed by a revert.
\* ------------------------------------------------------------------------
InitMW ==
  /\ now = MWStartMs
  /\ rule = BurstRule
  /\ enableInMemoryFallback = FALSE
  /\ faultMode = "up"
  /\ key = EmptyKey
  /\ localCache = NoLocal
  /\ cb = NewBreaker
  /\ calls = [c \in Callers |-> IdleCall]
  /\ log = {}
  /\ nextId = 1
  /\ overlap = FALSE
  /\ streak = 0
  /\ ret = NoReturn
  /\ last = NoResult
  /\ reqs = [r \in Slots |-> IdleReq]
  /\ \E n \in PriorChoices : mwKeys = PriorKeys(n)
  /\ mwNext = 1
  /\ mwOpts \in {DefaultOptions, ServerOptions}
  /\ mwReverts = {}
  /\ mwHist = [NoHistory EXCEPT !.clean = (mwKeys = PriorKeys(0))]
  /\ mwMode = "concurrent"
  /\ mwJobs = {PeriodicJob}
  /\ kgRules = NoConfigs
  /\ kgKeys = <<>>
  /\ idReq = NoRequest
  /\ idOut = Extracted(NoRequest)
  /\ admin = NoAnswer
  /\ worker = NewWorker
  /\ ops = NoOps
  /\ sweep = NoSweep
  /\ pick = NoPick
  /\ hdr = NoHeaders
  /\ throttle = NoThrottle

mwFrame == <<rule, enableInMemoryFallback, faultMode, key, cb, calls,
            log, nextId, overlap, cbAux, kgVars, worker, sweep, pick, hdr, ops>>

\* what the reset endpoint touches besides the store
mwLocal == <<localCache, throttle, admin>>

\* the clock steps within which requests arrive
TickBudget == IF mwMode = "single" THEN SeqTicks ELSE MWTicks

\* the clock advances; while requests are handled one at a time, it does so
\* between requests
MWTick ==
  /\ now < MWStartMs + TickBudget * TickMs
  /\ mwMode = "single" => \A r \in Slots : reqs[r].pc = "idle"
  /\ now' = now + TickMs
  /\ localCache' = SweptLocalCache(localCache, now, now')
  /\ UNCHANGED mwVars
  /\ UNCHANGED <<mwFrame, throttle, admin>>

\* requests in flight are interchangeable: a new one takes the first free slot
FirstFree(r) == \A q \in Slots : q < r => reqs[q].pc # "idle"

\* a catch block that answers with an error instead of calling next()
ErrorOutcome_respond == [NoOutcome EXCEPT !.error = TRUE, !.code = 500]

\* the catch block of the middleware: the error is logged and next() called
ErrorOutcome == [NoOutcome EXCEPT !.nextCalled = TRUE, !.error = TRUE]

\* next() runs the downstream handler, which answers with status code
Forward(out, code) == IF out.nextCalled THEN [out EXCEPT !.code = code] ELSE out

\* the middleware up to its first await that does not resolve at once, for
\* request number id of kind k arriving at t: options.keyGenerator, then
\* every checkRule up to its redis.eval (skipIf and the rule's keyGenerator
\* are evaluated, Date.now() is read).  A checkRule that throws rejects
\* Promise.all, and the catch block runs while the other evals are in
\* flight; when every rule is skipped, no eval is issued and next() is
\* called.
StartRequest(id, k, t, code) ==
  LET res == [i \in RuleIds |->
                IF k.fault = "ident" \/ SkipIf(i, k.path) THEN InertResult
                ELSE IF k.fault = "rulekey" /\ MWRules[i].ownKey THEN ThrewResult
                     ELSE PendingResult]
      threw == k.fault = "ident" \/ \E i \in RuleIds : res[i].st = "threw"
      inert == \A i \in RuleIds : res[i].st = "inert"
  IN  [pc |-> IF threw \/ inert THEN "done" ELSE "checking",
       id |-> id, path |-> k.path, fault |-> k.fault, t |-> t, res |-> res,
       out |-> IF threw THEN Forward(ErrorOutcome, code)
               ELSE IF inert THEN Forward([NoOutcome EXCEPT !.nextCalled = TRUE], code)
                    ELSE NoOutcome]

\* a request arrives, within the first clock steps
MWStart(r) ==
  /\ reqs[r].pc = "idle"
  /\ FirstFree(r)
  /\ mwNext <= MWMaxReqs
  /\ now <= MWStartMs + TickBudget * TickMs
  /\ mwNext' = mwNext + 1
  /\ mwMode = "single" => \A q \in Slots : reqs[q].pc = "idle"
  /\ \E k \in RequestKinds, code \in HandlerStatus :
       LET q == StartRequest(mwNext, k, now, code)
       IN  /\ mwMode # "single" => k.fault = "none"
           /\ (q.pc = "checking" \/ mwMode = "concurrent") => code = 200
           /\ reqs' = [reqs EXCEPT ![r] = q]
           /\ mwHist' = Noted(mwMode, mwHist,
                              [mwHist EXCEPT
                                 !.clean = /\ mwHist.clean
                                           /\ k.fault = "none"
                                           /\ code >= 200 /\ code < 300,
                                 !.denier = IF q.pc = "done" /\ ~q.out.error
                                            THEN 0 ELSE mwHist.denier])
  /\ UNCHANGED <<now, mwKeys, mwOpts, mwReverts, mwMode, mwJobs>>
  /\ UNCHANGED <<mwFrame, mwLocal>>

\* rules of the request in slot r whose eval the store has not run yet
PendingRules(r) ==
  { i \in RuleIds : reqs[r].pc # "idle" /\ reqs[r].res[i].st = "pending" }

\* rules of the request in slot r whose checkRule has not resolved yet
OpenRules(r) ==
  { i \in RuleIds : reqs[r].pc # "idle"
                    /\ reqs[r].res[i].st \in {"pending", "evaluated"} }

\* the commands of one process travel over the single connection of the
\* RedisService singleton, so the store runs them in the order of issue:
\* the evals of a request in rule order, after those of earlier requests
OldestPending(r, i) ==
  /\ \A j \in RuleIds : j < i => reqs[r].res[j].st # "pending"
  /\ \A q \in Slots : reqs[q].id < reqs[r].id => PendingRules(q) = {}

\* the replies arrive in the order of the commands
OldestOpen(r, i) ==
  /\ \A j \in RuleIds : j < i => reqs[r].res[j].st \notin {"pending", "evaluated"}
  /\ \A q \in Slots : reqs[q].id < reqs[r].id => OpenRules(q) = {}

\* the store runs the sliding-window script of one checkRule on the key of
\* the rule, with the arguments slidingWindowCheck computed when the request
\* arrived
MWEval(r, i) ==
  /\ reqs[r].pc \in {"checking", "done"}
  /\ reqs[r].res[i].st = "pending"
  /\ OldestPending(r, i)
  /\ \A v \in mwReverts : reqs[r].id < v.seq
  /\ admin.pc = "issued" => reqs[r].id < admin.seq
  /\ LET kn == <<i, RuleIdent(i, reqs[r].path)>>
         s  == SlidingScript(mwKeys[kn], reqs[r].t, MWRules[i], TRUE, reqs[r].id, now)
     IN  /\ mwKeys' = [mwKeys EXCEPT ![kn] = s.key]
         /\ reqs' = [reqs EXCEPT ![r].res[i] =
                       [PendingResult EXCEPT !.st = "evaluated",
                                             !.allowed = s.allowed,
                                             !.count = s.data.count,
                                             !.resetTime = s.data.resetTime]]
  /\ UNCHANGED <<now, mwNext, mwOpts, mwReverts, mwHist, mwMode, mwJobs>>
  /\ UNCHANGED <<mwFrame, mwLocal>>

\* the continuation of slidingWindowCheck and checkRateLimit, once the reply
\* of the store has arrived: CacheService.buildResult at Date.now() = t
Resolved(e, r, t) ==
  LET b == buildResult([count |-> e.count, resetTime |-> e.resetTime,
                        createdAt |-> 0], r, e.allowed, t)
  IN  [st |-> "done", allowed |-> b.allowed, remaining |-> b.remainingRequests,
       hasRetryAfter |-> b.hasRetryAfter, retryAfter |-> b.retryAfter,
       count |-> e.count, resetTime |-> b.resetTime]

\* addWarningHeaders with the test remainingPercent < 20
addWarningHeaders_strict(remaining, total) ==
  IF remaining = 0 THEN "Rate limit nearly exceeded"
  ELSE IF remaining * 100 < 20 * total THEN "Approaching rate limit"
  ELSE ""

\* the value of X-RateLimit-Warning ("" when the header is not set);
\* (remaining / total) * 100 <= 20 is decided on the integers
addWarningHeaders(remaining, total) ==
  IF remaining = 0 THEN "Rate limit nearly exceeded"
  ELSE IF remaining * 100 <= 20 * total THEN "Approaching rate limit"
  ELSE ""

\* the headers a denial leaves on the response: defaultOnLimitReached sets
\* the legacy and standard headers, a user-supplied callback none
DenialHeaders(opts, r) ==
  IF opts.customCallback
  THEN [legacy |-> FALSE, standard |-> FALSE, retryAfterHdr |-> FALSE]
  ELSE [legacy |-> opts.legacyHeaders, standard |-> opts.standardHeaders,
        retryAfterHdr |-> \/ opts.legacyHeaders
                          \/ opts.standardHeaders /\ r.retryAfter # 0]

\* the middleware from the filter of the results to the call of
\* queueCleanupJob: a blocked result has been found
BlockedOutcome(blocked, enqueueOk) ==
  [NoOutcome EXCEPT !.blocked = blocked, !.winner = blocked,
                    !.enqueueFailed = ~enqueueOk]

\* the middleware from the filter of the results to next(), when no result
\* is blocked
AllowedOutcome(res, opts) ==
  LET final == FinalResult(ActiveResults(res))
  IN  [NoOutcome EXCEPT !.winner = final, !.nextCalled = TRUE,
                        !.hooked = TRUE, !.legacy = opts.legacyHeaders,
                        !.standard = opts.standardHeaders,
                        !.security = TRUE,
                        !.warning =
                          addWarningHeaders(res[final].remaining,
                                            MWRules[final].maxRequests)]

\* the middleware after await queueCleanupJob: addRateLimitJob has rejected
\* and the catch block runs, or options.onLimitReached is called and
\* returns, throws (the catch block runs), or answers and returns a promise
\* that is rejected
DenialOutcome(res, opts, out, how) ==
  LET blocked == out.blocked
      h       == DenialHeaders(opts, res[blocked])
      sent    == [out EXCEPT !.status = StatusCode(blocked),
                             !.code = StatusCode(blocked),
                             !.legacy = h.legacy,
                             !.standard = h.standard,
                             !.retryAfterHdr = h.retryAfterHdr,
                             !.warning =
                               IF opts.customCallback THEN ""
                               ELSE addWarningHeaders(res[blocked].remaining,
                                                      MWRules[blocked].maxRequests)]
  IN  IF out.enqueueFailed
      THEN [out EXCEPT !.nextCalled = TRUE, !.error = TRUE]
      ELSE IF how = "throws"
           THEN [out EXCEPT !.status = StatusCode(blocked), !.nextCalled = TRUE,
                            !.error = TRUE]
           ELSE IF how = "rejects" THEN [sent EXCEPT !.unhandled = TRUE]
                ELSE sent

\* the reply of the store to the eval of one checkRule arrives and the
\* result is built.  With the last reply of a request Promise.all resolves,
\* and the middleware runs on in the same turn: to next(), where the
\* downstream handler answers with status code, or, with a blocked result,
\* to queueCleanupJob, which adds the job to the queue (or fails to)
MWReply(r, i) ==
  /\ reqs[r].pc \in {"checking", "done"}
  /\ reqs[r].res[i].st = "evaluated"
  /\ OldestOpen(r, i)
  /\ LET res     == [reqs[r].res EXCEPT ![i] = Resolved(reqs[r].res[i], MWRules[i], now)]
         closing == reqs[r].pc = "checking" /\ OpenRules(r) = {i}
         blocked == FindBlocked(ActiveResults(res), res)
     IN  \E enqueueOk \in BOOLEAN, code \in HandlerStatus :
           /\ (~closing \/ blocked = 0) => enqueueOk
           /\ (~closing \/ blocked # 0 \/ mwMode = "concurrent") => code = 200
           /\ reqs' = [reqs EXCEPT
                         ![r].res = res,
                         ![r].pc = IF ~closing THEN reqs[r].pc
                                   ELSE IF blocked # 0 THEN "enqueuing" ELSE "done",
                         ![r].out = IF ~closing THEN reqs[r].out
                                    ELSE IF blocked # 0 THEN BlockedOutcome(blocked, enqueueOk)
                                    ELSE Forward(AllowedOutcome(res, mwOpts), code)]
           /\ mwHist' = Noted(mwMode, mwHist,
                              [mwHist EXCEPT
                                 !.clean = /\ mwHist.clean
                                           /\ closing => /\ blocked = 0
                                                         /\ code >= 200 /\ code < 300,
                                 !.fresh = IF /\ mwHist.fresh = i
                                              /\ reqs[r].id >= mwHist.since
                                           THEN 0 ELSE mwHist.fresh,
                                 !.denier = IF closing THEN blocked
                                            ELSE mwHist.denier])
           /\ mwJobs' = IF closing /\ blocked # 0 /\ enqueueOk
                        THEN mwJobs \cup {CleanupJob(blocked, now, reqs[r].id)}
                        ELSE mwJobs
  /\ UNCHANGED <<now, mwKeys, mwNext, mwOpts, mwReverts, mwMode>>
  /\ UNCHANGED <<mwFrame, mwLocal>>

\* what options.onLimitReached can do: only a callback of the user fails
CallbackChoices ==
  IF mwOpts.customCallback THEN {"returns", "throws", "rejects"} ELSE {"returns"}

\* addRateLimitJob has settled: the rest of the middleware for a request
\* with a blocked result; when the catch block calls next(), the downstream
\* handler answers with status code
MWAnswer(r) ==
  /\ reqs[r].pc = "enqueuing"
  /\ \E how \in CallbackChoices, code \in HandlerStatus :
       LET out == DenialOutcome(reqs[r].res, mwOpts, reqs[r].out, how)
       IN  /\ reqs[r].out.enqueueFailed => how = "returns"
           /\ (~out.nextCalled \/ mwMode = "concurrent") => code = 200
           /\ reqs' = [reqs EXCEPT ![r].pc = "done", ![r].out = Forward(out, code)]
  /\ UNCHANGED <<now, mwKeys, mwNext, mwOpts, mwReverts, mwHist, mwMode, mwJobs>>
  /\ UNCHANGED <<mwFrame, mwLocal>>

\* the number of the next finish event whose listener issues reverts
NextOrd ==
  IF mwReverts = {} THEN 1
  ELSE 1 + (CHOOSE o \in { v.ord : v \in mwReverts } :
              \A w \in mwReverts : w.ord <= o)

\* the revert scripts the finish listener of the request in slot r issues
RevertsOf(r) ==
  IF reqs[r].out.hooked /\ ShouldRevert(mwOpts, reqs[r].out.code)
  THEN { [key |-> <<i, ClientIdent>>, rid |-> reqs[r].id, seq |-> mwNext,
          ord |-> NextOrd] :
           i \in { j \in RuleIds : reqs[r].res[j].st = "done" /\ reqs[r].res[j].allowed } }
  ELSE {}

\* the response of the request has been sent: the finish listener runs
MWFinish(r) ==
  /\ reqs[r].pc = "done"
  /\ reqs[r].out.code # 0
  /\ OpenRules(r) = {}
  /\ mwReverts' = mwReverts \cup RevertsOf(r)
  /\ reqs' = [reqs EXCEPT ![r] = IdleReq]
  /\ UNCHANGED <<now, mwKeys, mwNext, mwOpts, mwHist, mwMode, mwJobs>>
  /\ UNCHANGED <<mwFrame, mwLocal>>

\* v was issued before w: the listeners run in the order of the finish
\* events, each issuing its reverts in rule order
IssuedBefore(v, w) ==
  \/ v.ord < w.ord
  \/ v.ord = w.ord /\ v.key[1] < w.key[1]

\* the store runs the oldest revert script, after the evals issued before it
MWRevert(v) ==
  /\ v \in mwReverts
  /\ \A w \in mwReverts : ~IssuedBefore(w, v)
  /\ \A q \in Slots : reqs[q].id < v.seq => PendingRules(q) = {}
  /\ admin.pc = "issued" => v \in admin.before
  /\ LET k == Live(mwKeys[v.key], now)
     IN  IF k.members = {}
         THEN mwKeys' = [mwKeys EXCEPT ![v.key] = k]
         ELSE \E m \in TopMembers(k) :
                mwKeys' = [mwKeys EXCEPT ![v.key] = RevertScript(k, m)]
  /\ mwReverts' = mwReverts \ {v}
  /\ UNCHANGED <<now, reqs, mwNext, mwOpts, mwHist, mwMode, mwJobs>>
  /\ UNCHANGED <<mwFrame, mwLocal>>

\* RateLimiterMiddleware.resetRateLimit(ident, ruleId) as far as its first
\* await that waits for the store: the DEL of the key of the first rule of
\* order is sent; when there is no rule to reset,
\* throttleMap.delete(identifier) follows at once and the endpoint answers
ResetIssue(body, ident, order) ==
  /\ throttle' = IF order = <<>>
                 THEN [throttle EXCEPT !.map[ident] = NoEntryYet]
                 ELSE throttle
  /\ admin' = [NoAnswer EXCEPT
                 !.status = IF order = <<>> THEN 200 ELSE 0,
                 !.body = body,
                 !.pc = IF order = <<>> THEN "idle" ELSE "issued",
                 !.ident = ident,
                 !.left = order,
                 !.seq = IF order = <<>> THEN 0 ELSE mwNext,
                 !.before = IF order = <<>> THEN {} ELSE mwReverts]
  /\ UNCHANGED <<mwKeys, localCache>>

\* the DEL reaches the store, after the commands sent before it on the
\* connection, and removes the key; or it fails
ResetDel(storeOk) ==
  /\ admin.pc = "issued"
  /\ \A q \in Slots : reqs[q].id < admin.seq => PendingRules(q) = {}
  /\ admin.before \cap mwReverts = {}
  /\ mwKeys' = ResetKey(mwKeys, <<Head(admin.left), admin.ident>>, storeOk)
  /\ admin' = [admin EXCEPT !.pc = "executed", !.ok = storeOk, !.before = {}]
  /\ UNCHANGED <<localCache, throttle>>

\* the outcome of the DEL has arrived: CacheService.resetRateLimit removes
\* the entry of the key from the local cache when DEL succeeded and logs an
\* error otherwise; the loop of resetRateLimit sends the DEL of the next
\* rule, and after the last throttleMap.delete(identifier) runs and the
\* endpoint answers
ResetReply ==
  /\ admin.pc = "executed"
  /\ LET rest == Tail(admin.left)
     IN  /\ localCache' = IF admin.ok THEN NoLocal ELSE localCache
         /\ throttle' = IF rest = <<>>
                        THEN [throttle EXCEPT !.map[admin.ident] = NoEntryYet]
                        ELSE throttle
         /\ admin' = [admin EXCEPT
                        !.status = IF rest = <<>> THEN 200 ELSE 0,
                        !.delFailed = admin.delFailed \/ ~admin.ok,
                        !.pc = IF rest = <<>> THEN "idle" ELSE "issued",
                        !.left = rest,
                        !.seq = IF rest = <<>> THEN 0 ELSE mwNext,
                        !.before = IF rest = <<>> THEN {} ELSE mwReverts,
                        !.ok = TRUE]
  /\ UNCHANGED mwKeys

\* POST /admin/reset-rate-limit after a denial, with the identifier ident
\* and with the id of the rule that denied or without ruleId
MWReset(ruleId, ident) ==
  /\ admin.pc = "idle"
  /\ mwHist.denier # 0
  /\ mwNext <= MWMaxReqs
  /\ ruleId.truthy => ruleId.val = mwHist.denier
  /\ ResetIssue([identifier |-> [type |-> "string", truthy |-> TRUE, val |-> ident],
                 ruleId |-> ruleId],
                ident, ResetOrder(ruleId))
  /\ mwHist' = [mwHist EXCEPT
                  !.hit = IF ident = ClientIdent THEN mwHist.denier ELSE 0,
                  !.first = mwNext,
                  !.calm = \A q \in Slots : PendingRules(q) = {}]
  /\ UNCHANGED <<now, reqs, mwNext, mwOpts, mwReverts, mwMode, mwJobs>>
  /\ UNCHANGED mwFrame

\* the store runs the DEL the reset has sent
MWResetDel ==
  /\ ResetDel(TRUE)
  /\ UNCHANGED <<now, reqs, mwNext, mwOpts, mwReverts, mwHist, mwMode, mwJobs>>
  /\ UNCHANGED mwFrame

\* the history of a reset that ends: it has deleted the key of the rule
\* that was denying the client, for the identifier of the client, and no
\* request of the client was under way meanwhile
ResetNoted ==
  LET hit == mwHist.hit # 0 /\ mwHist.calm /\ mwHist.first = mwNext
  IN  [mwHist EXCEPT !.fresh = IF hit THEN mwHist.hit ELSE mwHist.fresh,
                     !.since = IF hit THEN mwNext ELSE mwHist.since,
                     !.denier = 0, !.hit = 0, !.first = 0, !.calm = TRUE]

\* the reply of a DEL is taken up
MWResetReply ==
  /\ ResetReply
  /\ mwHist' = IF Len(admin.left) = 1 THEN ResetNoted ELSE mwHist
  /\ UNCHANGED <<now, reqs, mwNext, mwOpts, mwReverts, mwMode, mwJobs>>
  /\ UNCHANGED mwFrame

NextMW ==
  \/ MWTick
  \/ \E r \in Slots : MWStart(r)
  \/ \E r \in Slots, i \in RuleIds : MWEval(r, i)
  \/ \E r \in Slots, i \in RuleIds : MWReply(r, i)
  \/ \E r \in Slots : MWAnswer(r)
  \/ \E r \in Slots : MWFinish(r)

SpecMW == InitMW /\ [][NextMW]_vars

\* One request at a time: every option set, requests for which a key
\* generator throws, denial callbacks that throw, handlers answering with
\* any status.
InitMWSeq ==
  /\ now = MWStartMs
  /\ rule = BurstRule
  /\ enableInMemoryFallback = FALSE
  /\ faultMode = "up"
  /\ key = EmptyKey
  /\ localCache = NoLocal
  /\ cb = NewBreaker
  /\ calls = [c \in Callers |-> IdleCall]
  /\ log = {}
  /\ nextId = 1
  /\ overlap = FALSE
  /\ streak = 0
  /\ ret = NoReturn
  /\ last = NoResult
  /\ reqs = [r \in Slots |-> IdleReq]
  /\ \E n \in PriorChoices : mwKeys = PriorKeys(n)
  /\ mwNext = 1
  /\ mwOpts \in OptionChoices
  /\ mwReverts = {}
  /\ mwHist = [NoHistory EXCEPT !.clean = (mwKeys = PriorKeys(0))]
  /\ mwMode = "single"
  /\ mwJobs = {PeriodicJob}
  /\ kgRules = NoConfigs
  /\ kgKeys = <<>>
  /\ idReq = NoRequest
  /\ idOut = Extracted(NoRequest)
  /\ admin = NoAnswer
  /\ worker = NewWorker
  /\ ops = NoOps
  /\ sweep = NoSweep
  /\ pick = NoPick
  /\ hdr = NoHeaders
  /\ throttle = NoThrottle

\* nothing happens until the next job in the queues falls due
MWSleep ==
  /\ \A r \in Slots : reqs[r].pc = "idle"
  /\ mwReverts = {}
  /\ mwJobs # {}
  /\ \A j \in mwJobs : j.pc = "waiting" /\ now < j.due
  /\ \E j \in mwJobs :
       /\ \A h \in mwJobs : j.due <= h.due
       /\ now' = j.due
  /\ localCache' = SweptLocalCache(localCache, now, now')
  /\ UNCHANGED mwVars
  /\ UNCHANGED <<mwFrame, throttle, admin>>

\* the jobs left when the processor of job j returns: a recurring job is
\* scheduled again, PeriodicRuns times in all
Processed(jobs, j) ==
  (jobs \ {j}) \cup
    (IF j.repeat /\ j.due < PeriodicRuns * cleanupPeriod
     THEN {[j EXCEPT !.due = j.due + cleanupPeriod, !.pc = "waiting", !.found = {}]}
     ELSE {})

\* a queue worker takes a job that has fallen due: cleanupExpiredKeys up to
\* the reply of redis.keys, which ends it when no key matches
MWCleanupKeys(j) ==
  /\ j \in mwJobs
  /\ j.type \notin {"INCREMENT", "RESET"}
  /\ j.pc = "waiting"
  /\ now >= j.due
  /\ LET found == RedisKeys(mwKeys, j.pattern, now)
     IN  mwJobs' = IF found = {} THEN Processed(mwJobs, j)
                   ELSE (mwJobs \ {j}) \cup {[j EXCEPT !.pc = "scanning", !.found = found]}
  /\ UNCHANGED <<now, reqs, mwKeys, mwNext, mwOpts, mwReverts, mwHist, mwMode>>
  /\ UNCHANGED <<mwFrame, mwLocal>>

\* the store runs the pipeline of DELs of the keys redis.keys returned
MWCleanupDel(j) ==
  /\ j \in mwJobs
  /\ j.pc = "scanning"
  /\ mwKeys' = PipelineDel(mwKeys, j.found)
  /\ mwJobs' = Processed(mwJobs, j)
  /\ UNCHANGED <<now, reqs, mwNext, mwOpts, mwReverts, mwHist, mwMode>>
  /\ UNCHANGED <<mwFrame, mwLocal>>

NextMWSeq ==
  \/ NextMW
  \/ \E v \in mwReverts : MWRevert(v)
  \/ MWSleep
  \/ \E j \in mwJobs : MWCleanupKeys(j)
  \/ \E j \in mwJobs : MWCleanupDel(j)

SpecMWSeq == InitMWSeq /\ [][NextMWSeq]_vars

\* the same, with the reset endpoint called after denials
NextMWReset ==
  \/ NextMWSeq
  \/ \E ruleId \in ResetRuleIds, ident \in ResetIdents : MWReset(ruleId, ident)
  \/ MWResetDel
  \/ MWResetReply

SpecMWReset == InitMWSeq /\ [][NextMWReset]_vars

\* ------------------------------------------------------------------------
\* The operations of CacheService, RedisService and QueueService that no
\* route of the server reaches: getCurrentCount of both services,
\* revertIncrement, clearLocalCache, addCleanupJob, and addRateLimitJob with
\* the job types INCREMENT and RESET.  A caller reads the clock and sends
\* its command on the one connection of RedisService; the store runs the
\* commands in the order sent, each at its own time, and the replies come
\* back in that order.
\* ------------------------------------------------------------------------
\* the keys a counter can be found as: none, a sorted set left by calls
\* of slidingWindowCheck (at instant 0, or at instant 0 and at the start),
\* a string left by incrementCounterFixedWindow
OpsKeys(r) ==
  {EmptyKey, AfterCalls(r, 1), AfterCalls(r, r.maxRequests),
   SlidingScript(AfterCalls(r, 1), MWStartMs, r, TRUE, 1, MWStartMs).key,
   FixedScript(EmptyKey, 0, r, 0).key}

\* the counter of CacheService is found as one of found, and the keys of
\* the middleware hold one of the numbers priors of earlier requests
InitOps(found, priors) ==
  /\ now = MWStartMs
  /\ rule = PairRule
  /\ enableInMemoryFallback = TRUE
  /\ faultMode = "up"
  /\ key \in found
  /\ localCache = NoLocal
  /\ cb = NewBreaker
  /\ calls = [c \in Callers |-> IdleCall]
  /\ log = {}
  /\ nextId = 1
  /\ overlap = FALSE
  /\ streak = 0
  /\ ret = NoReturn
  /\ last = NoResult
  /\ reqs = [r \in Slots |-> IdleReq]
  /\ \E n \in priors : mwKeys = PriorKeys(n)
  /\ mwNext = 1
  /\ mwOpts = DefaultOptions
  /\ mwReverts = {}
  /\ mwHist = NoHistory
  /\ mwMode = "single"
  /\ mwJobs = {PeriodicJob}
  /\ kgRules = NoConfigs
  /\ kgKeys = <<>>
  /\ idReq = NoRequest
  /\ idOut = Extracted(NoRequest)
  /\ admin = NoAnswer
  /\ worker = NewWorker
  /\ ops = NoOps
  /\ sweep = NoSweep
  /\ pick = NoPick
  /\ hdr = NoHeaders
  /\ throttle = NoThrottle

opsFrame == <<rule, enableInMemoryFallback, faultMode, cb, calls, log, nextId,
             overlap, streak, ret, reqs, mwOpts, mwReverts, mwHist, mwMode,
             kgVars, admin, worker, sweep, pick, hdr, throttle>>

\* getCurrentCountFixedWindow, with Date.now() = t, from what
\* getRateLimitData returned (found = FALSE stands for null, which it
\* answers for every error too)
getCurrentCountFixedWindow(found, existing, r, t) ==
  LET windowStart == FloorDiv(t, r.windowMs) * r.windowMs
      resetTime   == windowStart + r.windowMs
  IN  IF ~found \/ t >= existing.resetTime
      THEN [count |-> 0, resetTime |-> resetTime, createdAt |-> t]
      ELSE existing

\* a command on the connection: op says which ("check": the script of
\* slidingWindowCheck without increment, "count": the script of
\* getCurrentCountSlidingWindow, "get": the GET of getRateLimitData,
\* "revert": the script of revertIncrement, "increment": the script of
\* incrementCounterSlidingWindow, "del": DEL, "keys": KEYS), t is the
\* Date.now() its caller read before sending it, id the job whose processor
\* sent it (0: none), and from the method that gets the reply
OpsCommand(op, t, id, from) == [op |-> op, t |-> t, id |-> id, from |-> from]

\* the clock advances, OpsTicks steps from the start; the interval that
\* sweeps the local cache fires when its period has passed
OpsTick ==
  /\ now < MWStartMs + OpsTicks * TickMs
  /\ now' = now + TickMs
  /\ localCache' = SweptLocalCache(localCache, now, now')
  /\ UNCHANGED <<key, last, mwKeys, mwNext, mwJobs, ops>>
  /\ UNCHANGED opsFrame

\* CacheService.getCurrentCount(key, rule) is called: slidingWindowCheck
\* reads the clock and sends its script
OpsGetCurrentCount ==
  /\ mwNext <= OpsCalls
  /\ mwNext' = mwNext + 1
  /\ ops' = [ops EXCEPT !.sent = Append(@, OpsCommand("check", now, 0, "cache"))]
  /\ UNCHANGED <<now, key, localCache, last, mwKeys, mwJobs>>
  /\ UNCHANGED opsFrame

\* RedisService.getCurrentCount(key, rule) is called: with the algorithm
\* 'fixed' getCurrentCountFixedWindow reads the clock and sends GET, and
\* otherwise getCurrentCountSlidingWindow reads the clock and sends its script
OpsRedisGetCurrentCount ==
  /\ mwNext <= OpsCalls
  /\ mwNext' = mwNext + 1
  /\ ops' = [ops EXCEPT !.sent =
               Append(@, OpsCommand(IF rule.algorithm = "fixed" THEN "get" ELSE "count",
                                    now, 0, "redis"))]
  /\ UNCHANGED <<now, key, localCache, last, mwKeys, mwJobs>>
  /\ UNCHANGED opsFrame

\* The Lua script of RedisService.revertIncrement, run atomically at store
\* time t on a sorted set: the member m with the highest score is removed,
\* the members that left the window are purged, and the TTL is renewed
\* while members remain
RevertIncrementScript(k0, m, argNow, r, t) ==
  LET k1    == Live(k0, t)
      k2    == IF k1.members = {} THEN k1 ELSE RevertScript(k1, m)
      k3    == ZRemRangeByScore(k2, argNow - r.windowMs)
      count == Cardinality(k3.members)
  IN  IF count > 0 THEN Expire(k3, CeilDiv(r.windowMs, 1000), t) ELSE k3

\* RedisService.revertIncrement(key, rule) is called: it reads the clock
\* and sends its script
OpsRevertIncrement ==
  /\ mwNext <= OpsCalls
  /\ mwNext' = mwNext + 1
  /\ ops' = [ops EXCEPT !.sent = Append(@, OpsCommand("revert", now, 0, "redis"))]
  /\ UNCHANGED <<now, key, localCache, last, mwKeys, mwJobs>>
  /\ UNCHANGED opsFrame

\* the reply to command c: ok tells that it is no error, data and allowed
\* are what it carries
OpsReplyTo(c, ok, data, allowed) ==
  [op |-> c.op, t |-> c.t, from |-> c.from, ok |-> ok, data |-> data,
   allowed |-> allowed]

\* The oldest command on the connection reaches the store, which runs it at
\* its own time, or it fails (the store is out of reach, or the key holds a
\* value of the wrong type); the reply sets out.  An error of the script of
\* revertIncrement is logged, and its reply is not used.
OpsEval(storeOk) ==
  /\ ops.sent # <<>>
  /\ LET c == Head(ops.sent)
         k == Live(key, now)
     IN  CASE c.op \in {"check", "count"} ->
                IF storeOk /\ k.kind # "string"
                THEN LET s == SlidingScript(key, c.t, rule, FALSE, 0, now)
                     IN  /\ key' = s.key
                         /\ ops' = [ops EXCEPT
                                      !.sent = Tail(@),
                                      !.replies = Append(@, OpsReplyTo(c, TRUE, s.data,
                                                                       s.allowed))]
                ELSE /\ key' = k
                     /\ ops' = [ops EXCEPT
                                  !.sent = Tail(@),
                                  !.replies = Append(@, OpsReplyTo(c, FALSE, NoEntry, TRUE))]
           [] c.op = "get" ->
                /\ key' = k
                /\ ops' = [ops EXCEPT
                             !.sent = Tail(@),
                             !.replies = Append(@,
                               IF storeOk /\ k.kind = "string"
                               THEN OpsReplyTo(c, TRUE, k.entry, TRUE)
                               ELSE OpsReplyTo(c, FALSE, NoEntry, TRUE))]
           [] c.op = "revert" ->
                /\ ops' = [ops EXCEPT !.sent = Tail(@)]
                /\ IF ~storeOk \/ k.kind = "string"
                   THEN key' = k
                   ELSE IF k.members = {}
                        THEN key' = RevertIncrementScript(key, <<0, 0>>, c.t, rule, now)
                        ELSE \E m \in TopMembers(k) :
                               key' = RevertIncrementScript(key, m, c.t, rule, now)
  /\ UNCHANGED <<now, localCache, last, mwKeys, mwNext, mwJobs>>
  /\ UNCHANGED opsFrame

\* The oldest reply arrives.  A reply of a script is returned, by
\* CacheService.getCurrentCount through buildResult, which reads the clock;
\* on an error the catch block calls getCurrentCountFixedWindow, which reads
\* the clock and sends GET.  A reply of GET ends getCurrentCountFixedWindow.
OpsReply ==
  /\ ops.replies # <<>>
  /\ LET r == Head(ops.replies)
         e == IF r.op = "get"
              THEN getCurrentCountFixedWindow(r.ok, r.data, rule, r.t)
              ELSE r.data
         a == IF r.op = "get" THEN e.count < rule.maxRequests ELSE r.allowed
     IN  IF r.op # "get" /\ ~r.ok
         THEN /\ ops' = [ops EXCEPT
                           !.replies = Tail(@),
                           !.sent = Append(@, OpsCommand("get", now, 0, r.from))]
              /\ UNCHANGED last
         ELSE IF r.from = "cache"
              THEN /\ last' = buildResult(e, rule, a, now)
                   /\ ops' = [ops EXCEPT !.replies = Tail(@)]
              ELSE /\ ops' = [ops EXCEPT !.replies = Tail(@), !.entry = e]
                   /\ UNCHANGED last
  /\ UNCHANGED <<now, key, localCache, mwKeys, mwNext, mwJobs>>
  /\ UNCHANGED opsFrame

\* checkRateLimit while the store is out of reach, with the in-memory
\* fallback enabled: checkRateLimitInMemory, which counts every call
OpsInMemory ==
  /\ mwNext <= OpsCalls
  /\ mwNext' = mwNext + 1
  /\ LET f == FallbackClosure(localCache, rule, TRUE, now)
     IN  /\ localCache' = f.localCache
         /\ last' = f.result
  /\ UNCHANGED <<now, key, mwKeys, mwJobs, ops>>
  /\ UNCHANGED opsFrame

\* CacheService.clearLocalCache()
OpsClearLocalCache ==
  /\ localCache.found
  /\ localCache' = NoLocal
  /\ UNCHANGED <<now, key, last, mwKeys, mwNext, mwJobs, ops>>
  /\ UNCHANGED opsFrame

\* the delays addRateLimitJob is called with (0: none)
DelayChoices == {0, cleanupDelay}

\* the keys the jobs added name: that of the burst rule and that of the
\* api rule for the client
JobKeys == {<<4, ClientIdent>>, <<2, OwnIdent("/api/data")>>}

\* QueueService.addRateLimitJob(message, delay) at t, for the key named kn:
\* the job the queue keeps, under the number id
RateLimitJob(type, kn, delay, t, id) ==
  [id |-> id, queue |-> "rate-limit", type |-> type, key |-> KeyString(kn),
   pattern |-> KeyString(kn) \o <<42>>,
   due |-> t + delay, repeat |-> FALSE, pc |-> "waiting", found |-> {}]

OpsAddRateLimitJob(type, kn, delay) ==
  /\ mwNext <= OpsJobs
  /\ mwNext' = mwNext + 1
  /\ mwJobs' = mwJobs \cup {RateLimitJob(type, kn, delay, now, mwNext)}
  /\ UNCHANGED <<now, key, localCache, last, mwKeys, ops>>
  /\ UNCHANGED opsFrame

\* the patterns addCleanupJob is called with: 'rate_limit:*', 'rl:*' and
\* 'rl:burst:*'
PatternChoices ==
  {PeriodicJob.pattern, <<114, 108, 58, 42>>,
   <<114, 108, 58, 98, 117, 114, 115, 116, 58, 42>>}

\* QueueService.addCleanupJob(pattern)
OpsAddCleanupJob(pattern) ==
  /\ mwNext <= OpsJobs
  /\ mwNext' = mwNext + 1
  /\ mwJobs' = mwJobs \cup
       {[PeriodicJob EXCEPT !.id = mwNext, !.pattern = pattern, !.due = now,
                            !.repeat = FALSE]}
  /\ UNCHANGED <<now, key, localCache, last, mwKeys, ops>>
  /\ UNCHANGED opsFrame

\* the key of the store a job names
Named(j) == { kn \in KeyNames : KeyString(kn) = j.key }

\* startProcessing: how many jobs of a queue its processor handles at a time
Concurrency(queue) == IF queue = "cleanup" THEN 1 ELSE 10

\* a queue hands job j, which has fallen due, to its processor, which sends
\* the command op on the connection of RedisService
OpsTake(j, op) ==
  /\ j \in mwJobs
  /\ j.pc = "waiting"
  /\ now >= j.due
  /\ Cardinality({ h \in mwJobs : h.queue = j.queue /\ h.pc # "waiting" })
       < Concurrency(j.queue)
  /\ mwJobs' = (mwJobs \ {j}) \cup {[j EXCEPT !.pc = "active"]}
  /\ ops' = [ops EXCEPT !.sent = Append(@, OpsCommand(op, now, j.id, "job"))]
  /\ UNCHANGED <<now, key, localCache, last, mwKeys, mwNext>>
  /\ UNCHANGED opsFrame

\* the processor of the rate-limit queue takes an INCREMENT job:
\* RedisService.incrementCounter reads the clock and sends its script
OpsIncrement(j) == j.type = "INCREMENT" /\ OpsTake(j, "increment")

\* the same for a RESET job: DEL of the key
OpsReset(j) == j.type = "RESET" /\ OpsTake(j, "del")

\* the same for a CLEANUP job, and for a job of the cleanup queue:
\* cleanupExpiredKeys sends KEYS
OpsCleanup(j) == j.type \notin {"INCREMENT", "RESET"} /\ OpsTake(j, "keys")

\* The store runs the oldest command on the connection, at its own time.
\* The script of incrementCounterSlidingWindow counts the job as a request
\* made when its processor read the clock, unless the window is full; after
\* it and after DEL the processor returns.  After KEYS the processor returns
\* when no key matches, and otherwise sends the pipeline of DELs.
OpsRun ==
  /\ ops.sent # <<>>
  /\ LET c == Head(ops.sent)
         j == CHOOSE h \in mwJobs : h.id = c.id
         found == RedisKeys(mwKeys, j.pattern, now)
     IN  CASE c.op = "increment" ->
                /\ mwKeys' = [kn \in KeyNames |->
                                IF kn \in Named(j)
                                THEN SlidingScript(mwKeys[kn], c.t, MWRules[kn[1]], TRUE,
                                                   j.id, now).key
                                ELSE mwKeys[kn]]
                /\ mwJobs' = Processed(mwJobs, j)
           [] c.op = "del" ->
                /\ mwKeys' = PipelineDel(mwKeys, Named(j))
                /\ mwJobs' = Processed(mwJobs, j)
           [] c.op = "keys" ->
                /\ mwJobs' = IF found = {} THEN Processed(mwJobs, j)
                             ELSE (mwJobs \ {j}) \cup
                                    {[j EXCEPT !.pc = "scanning", !.found = found]}
                /\ UNCHANGED mwKeys
  /\ ops' = [ops EXCEPT !.sent = Tail(@)]
  /\ UNCHANGED <<now, key, localCache, last, mwNext>>
  /\ UNCHANGED opsFrame

NextCacheOps ==
  \/ OpsTick
  \/ OpsGetCurrentCount
  \/ OpsRedisGetCurrentCount
  \/ OpsRevertIncrement
  \/ \E storeOk \in BOOLEAN : OpsEval(storeOk)
  \/ OpsReply
  \/ OpsInMemory
  \/ OpsClearLocalCache

SpecCacheOps == InitOps(OpsKeys(PairRule), {0}) /\ [][NextCacheOps]_vars

NextQueueOps ==
  \/ OpsTick
  \/ \E type \in {"INCREMENT", "RESET", "CLEANUP"}, kn \in JobKeys, delay \in DelayChoices :
       OpsAddRateLimitJob(type, kn, delay)
  \/ \E pattern \in PatternChoices : OpsAddCleanupJob(pattern)
  \/ \E j \in mwJobs : OpsIncrement(j)
  \/ \E j \in mwJobs : OpsReset(j)
  \/ \E j \in mwJobs : OpsCleanup(j)
  \/ OpsRun
  \/ MWSleep
  \/ \E j \in mwJobs : MWCleanupDel(j)

SpecQueueOps == InitOps({EmptyKey}, PriorChoices) /\ [][NextQueueOps]_vars

\* ------------------------------------------------------------------------
\* Concurrent requests of one client whose responses finish at any later
\* time, with skipSuccessfulRequests or skipFailedRequests set: admissions,
\* response completions and revert scripts interleave.
\* ------------------------------------------------------------------------
InitMWRevert ==
  /\ now = MWStartMs
  /\ rule = BurstRule
  /\ enableInMemoryFallback = FALSE
  /\ faultMode = "up"
  /\ key = EmptyKey
  /\ localCache = NoLocal
  /\ cb = NewBreaker
  /\ calls = [c \in Callers |-> IdleCall]
  /\ log = {}
  /\ nextId = 1
  /\ overlap = FALSE
  /\ streak = 0
  /\ ret = NoReturn
  /\ last = NoResult
  /\ reqs = [r \in Slots |-> IdleReq]
  /\ \E n \in PriorChoices \ {100} : mwKeys = PriorKeys(n)
  /\ mwNext = 1
  /\ mwOpts \in {SkipSuccessful, SkipFailed}
  /\ mwReverts = {}
  /\ mwHist = [NoHistory EXCEPT !.clean = (mwKeys = PriorKeys(0))]
  /\ mwMode = "reverting"
  /\ mwJobs = {PeriodicJob}
  /\ kgRules = NoConfigs
  /\ kgKeys = <<>>
  /\ idReq = NoRequest
  /\ idOut = Extracted(NoRequest)
  /\ admin = NoAnswer
  /\ worker = NewWorker
  /\ ops = NoOps
  /\ sweep = NoSweep
  /\ pick = NoPick
  /\ hdr = NoHeaders
  /\ throttle = NoThrottle

MWRevertTick ==
  /\ now < MWStartMs + RevertTicks * TickMs
  /\ now' = now + TickMs
  /\ localCache' = SweptLocalCache(localCache, now, now')
  /\ UNCHANGED mwVars
  /\ UNCHANGED <<mwFrame, throttle, admin>>

NextMWRevert ==
  \/ MWRevertTick
  \/ \E r \in Slots : MWStart(r)
  \/ \E r \in Slots, i \in RuleIds : MWEval(r, i)
  \/ \E r \in Slots, i \in RuleIds : MWReply(r, i)
  \/ \E r \in Slots : MWAnswer(r)
  \/ \E r \in Slots : MWFinish(r)
  \/ \E v \in mwReverts : MWRevert(v)

SpecMWRevert == InitMWRevert /\ [][NextMWRevert]_vars

\* ------------------------------------------------------------------------
\* Key generation: the keys of two rule configurations for one client.
\* ------------------------------------------------------------------------
InitKey ==
  /\ now = 0
  /\ rule = BurstRule
  /\ enableInMemoryFallback = FALSE
  /\ faultMode = "up"
  /\ key = EmptyKey
  /\ localCache = NoLocal
  /\ cb = NewBreaker
  /\ calls = [c \in Callers |-> IdleCall]
  /\ log = {}
  /\ nextId = 1
  /\ overlap = FALSE
  /\ streak = 0
  /\ ret = NoReturn
  /\ last = NoResult
  /\ reqs = [r \in Slots |-> IdleReq]
  /\ mwKeys = [k \in KeyNames |-> EmptyKey]
  /\ mwNext = 1
  /\ mwOpts = DefaultOptions
  /\ mwReverts = {}
  /\ mwHist = NoHistory
  /\ mwMode = "single"
  /\ mwJobs = {}
  /\ kgRules \in KeyConfigs \X KeyConfigs
  /\ kgKeys = <<>>
  /\ idReq = NoRequest
  /\ idOut = Extracted(NoRequest)
  /\ admin = NoAnswer
  /\ worker = NewWorker
  /\ ops = NoOps
  /\ sweep = NoSweep
  /\ pick = NoPick
  /\ hdr = NoHeaders
  /\ throttle = NoThrottle

kgFrame == <<now, rule, enableInMemoryFallback, faultMode, key, localCache, cb,
            calls, log, nextId, overlap, cbAux, mwVars, sideVars>>

GenerateKeys ==
  /\ kgKeys = <<>>
  /\ kgKeys' = << generateRateLimitKey(KeyIdentifier, kgRules[1]),
                  generateRateLimitKey(KeyIdentifier, kgRules[2]) >>
  /\ UNCHANGED <<kgRules, idReq, idOut>>
  /\ UNCHANGED kgFrame

NextKey == GenerateKeys

SpecKey == InitKey /\ [][NextKey]_vars

\* Identifier extraction as a function of the request: the values of the
\* request are built up from fragments, and the identifier and its key are
\* extracted from every request so built.
InitIdent ==
  /\ now = 0
  /\ rule = BurstRule
  /\ enableInMemoryFallback = FALSE
  /\ faultMode = "up"
  /\ key = EmptyKey
  /\ localCache = NoLocal
  /\ cb = NewBreaker
  /\ calls = [c \in Callers |-> IdleCall]
  /\ log = {}
  /\ nextId = 1
  /\ overlap = FALSE
  /\ streak = 0
  /\ ret = NoReturn
  /\ last = NoResult
  /\ reqs = [r \in Slots |-> IdleReq]
  /\ mwKeys = [k \in KeyNames |-> EmptyKey]
  /\ mwNext = 1
  /\ mwOpts = DefaultOptions
  /\ mwReverts = {}
  /\ mwHist = NoHistory
  /\ mwMode = "single"
  /\ mwJobs = {}
  /\ kgRules = NoConfigs
  /\ kgKeys = <<>>
  /\ idReq \in { [NoRequest EXCEPT !.remotePort = p] : p \in PeerPorts }
  /\ idOut = Extracted(idReq)
  /\ admin = NoAnswer
  /\ worker = NewWorker
  /\ ops = NoOps
  /\ sweep = NoSweep
  /\ pick = NoPick
  /\ hdr = NoHeaders
  /\ throttle = NoThrottle

\* one more fragment arrives in a header or in the peer address
Extend(h, f) ==
  /\ idReq.parts < IdentMaxParts
  /\ idReq' = [idReq EXCEPT ![h] = idReq[h] \o f, !.parts = idReq.parts + 1]
  /\ idOut' = Extracted(idReq')
  /\ UNCHANGED <<kgRules, kgKeys>>
  /\ UNCHANGED kgFrame

NextIdent == \E h \in Sources, f \in Fragments : Extend(h, f)

SpecIdent == InitIdent /\ [][NextIdent]_vars

\* ------------------------------------------------------------------------
\* The local throttle, enabled: requests of two clients arrive as the clock
\* advances, and resetRateLimit drops the entry of a client.
\* ------------------------------------------------------------------------
InitThrottle ==
  /\ now = EpochMs
  /\ rule = BurstRule
  /\ enableInMemoryFallback = FALSE
  /\ faultMode = "up"
  /\ key = EmptyKey
  /\ localCache = NoLocal
  /\ cb = NewBreaker
  /\ calls = [c \in Callers |-> IdleCall]
  /\ log = {}
  /\ nextId = 1
  /\ overlap = FALSE
  /\ streak = 0
  /\ ret = NoReturn
  /\ last = NoResult
  /\ reqs = [r \in Slots |-> IdleReq]
  /\ mwKeys = [k \in KeyNames |-> EmptyKey]
  /\ mwNext = 1
  /\ mwOpts = DefaultOptions
  /\ mwReverts = {}
  /\ mwHist = NoHistory
  /\ mwMode = "single"
  /\ mwJobs = {PeriodicJob}
  /\ kgRules = NoConfigs
  /\ kgKeys = <<>>
  /\ idReq = NoRequest
  /\ idOut = Extracted(NoRequest)
  /\ admin = NoAnswer
  /\ worker = NewWorker
  /\ ops = NoOps
  /\ sweep = NoSweep
  /\ pick = NoPick
  /\ hdr = NoHeaders
  /\ throttle \in { [NoThrottle EXCEPT !.burst = b, !.maxThrottleDelay = m,
                                       !.map[OwnIdent("/api/data")] = e,
                                       !.others = o] :
                     b \in BurstChoices, m \in MaxDelayChoices,
                     e \in {NoEntryYet, StaleMs}, o \in OthersChoices }

throttleFrame == <<rule, enableInMemoryFallback, faultMode, key, localCache, cb,
                  calls, log, nextId, overlap, cbAux, mwVars, kgVars, admin,
                  worker, sweep, pick, hdr, ops>>

ThrottleTick ==
  /\ now < EpochMs + ThrottleTicks * TickMs
  /\ now' = now + TickMs
  /\ UNCHANGED throttle
  /\ UNCHANGED throttleFrame

\* the middleware up to the rule checks, with enableLocalThrottle set
ThrottleArrive(identifier) ==
  LET c == calculateThrottleDelay(throttle.map, throttle.others, identifier,
                                  throttle.burst, now)
  IN  /\ throttle' =
           [throttle EXCEPT
              !.map = c.map,
              !.others = c.others,
              !.seen = [identifier |-> identifier,
                        found |-> throttle.map[identifier],
                        at |-> now,
                        delay |-> c.delay,
                        wait |-> ThrottleWait(c.delay, throttle.maxThrottleDelay),
                        status |-> 0]]
      /\ UNCHANGED now
      /\ UNCHANGED throttleFrame

\* resetRateLimit: throttleMap.delete(identifier)
ThrottleForget(identifier) ==
  /\ throttle.map[identifier] # NoEntryYet
  /\ throttle' = [throttle EXCEPT !.map[identifier] = NoEntryYet]
  /\ UNCHANGED now
  /\ UNCHANGED throttleFrame

ThrottleClients == {ClientIdent, OwnIdent("/api/data")}

NextThrottle ==
  \/ ThrottleTick
  \/ \E identifier \in ThrottleClients : ThrottleArrive(identifier)
  \/ \E identifier \in ThrottleClients : ThrottleForget(identifier)

SpecThrottle == InitThrottle /\ [][NextThrottle]_vars

\* ------------------------------------------------------------------------
\* The responses to the requests of one client under one rule, whose
\* maxRequests ranges up to WarnMaxLimit: each request is counted by the
\* sliding script when the store runs it, and its headers are set from the
\* reply when the middleware resumes, other requests in between.
\* ------------------------------------------------------------------------
InitWarn ==
  /\ now = 0
  /\ rule = BurstRule
  /\ enableInMemoryFallback = FALSE
  /\ faultMode = "up"
  /\ key = EmptyKey
  /\ localCache = NoLocal
  /\ cb = NewBreaker
  /\ calls = [c \in Callers |-> IdleCall]
  /\ log = {}
  /\ nextId = 1
  /\ overlap = FALSE
  /\ streak = 0
  /\ ret = NoReturn
  /\ last = NoResult
  /\ reqs = [r \in Slots |-> IdleReq]
  /\ mwKeys = [k \in KeyNames |-> EmptyKey]
  /\ mwNext = 1
  /\ mwOpts = DefaultOptions
  /\ mwReverts = {}
  /\ mwHist = NoHistory
  /\ mwMode = "single"
  /\ mwJobs = {PeriodicJob}
  /\ kgRules = NoConfigs
  /\ kgKeys = <<>>
  /\ idReq = NoRequest
  /\ idOut = Extracted(NoRequest)
  /\ admin = NoAnswer
  /\ worker = NewWorker
  /\ ops = NoOps
  /\ sweep = NoSweep
  /\ pick = NoPick
  /\ hdr \in { [NoHeaders EXCEPT !.limit = n, !.opts = o] :
                n \in 1..WarnMaxLimit, o \in OptionChoices }
  /\ throttle = NoThrottle

warnFrame == <<now, rule, enableInMemoryFallback, faultMode, key, localCache, cb,
              calls, log, nextId, overlap, cbAux, mwVars, kgVars, admin,
              worker, sweep, pick, throttle, ops>>

\* a request of the client enters the middleware: checkRule sends the
\* sliding script on the connection
WarnStart(s) ==
  /\ hdr.flight[s].pc = "idle"
  /\ \A q \in WarnSlots : q < s => hdr.flight[q].pc # "idle"
  /\ hdr' = [hdr EXCEPT !.flight[s] = [IdleFlight EXCEPT !.pc = "pending"],
                        !.evals = Append(@, s)]
  /\ UNCHANGED warnFrame

\* the store runs the oldest script sent, within the window of the earlier
\* requests: it counts the request when the count is below the limit and
\* replies with the count and the decision
WarnEval ==
  /\ hdr.evals # <<>>
  /\ Head(hdr.evals) \in WarnSlots
  /\ LET s       == Head(hdr.evals)
         allowed == hdr.count < hdr.limit
         count   == IF allowed THEN hdr.count + 1 ELSE hdr.count
     IN  hdr' = [hdr EXCEPT
                   !.count = count,
                   !.flight[s] = [@ EXCEPT !.pc = "evaluated",
                                           !.allowed = allowed,
                                           !.count = count],
                   !.evals = Tail(@),
                   !.replies = Append(@, s)]
  /\ UNCHANGED warnFrame

\* the result a reply is turned into (buildResult of the counts replied)
WarnResult(f) ==
  buildResult([count |-> f.count, resetTime |-> now + rule.windowMs,
               createdAt |-> now],
              [rule EXCEPT !.maxRequests = hdr.limit], f.allowed, now)

\* the middleware takes up the oldest reply: an admitted request gets its
\* headers from the result, setupPostResponseHandling registers the finish
\* listener and the handler is called; a denied one awaits queueCleanupJob
WarnReply ==
  /\ hdr.replies # <<>>
  /\ LET s      == Head(hdr.replies)
         f      == hdr.flight[s]
         result == WarnResult(f)
     IN  IF f.allowed
         THEN hdr' = [hdr EXCEPT
                        !.replies = Tail(@),
                        !.flight[s] = [@ EXCEPT !.pc = "handling"],
                        !.seen = [responded |-> TRUE,
                                  fromDecision |-> TRUE,
                                  allowed |-> TRUE,
                                  remaining |-> result.remainingRequests,
                                  warning |-> addWarningHeaders(
                                                result.remainingRequests,
                                                hdr.limit)]]
         ELSE \E enqueueOk \in BOOLEAN :
                hdr' = [hdr EXCEPT
                          !.replies = Tail(@),
                          !.flight[s] = [@ EXCEPT !.pc = "enqueuing",
                                                  !.enqueueOk = enqueueOk]]
  /\ UNCHANGED warnFrame

\* queueCleanupJob has settled: onLimitReached answers the denial (the
\* default callback sets the headers from the result, a callback of the
\* user none); when the job could not be enqueued the catch block calls
\* next() and the handler answers without them
WarnAnswer(s) ==
  /\ hdr.flight[s].pc = "enqueuing"
  /\ LET f      == hdr.flight[s]
         result == WarnResult(f)
         byDefault == f.enqueueOk /\ ~hdr.opts.customCallback
     IN  hdr' = [hdr EXCEPT
                   !.flight[s] = IdleFlight,
                   !.seen = [responded |-> TRUE,
                             fromDecision |-> byDefault,
                             allowed |-> FALSE,
                             remaining |-> result.remainingRequests,
                             warning |-> IF byDefault
                                         THEN addWarningHeaders(
                                                result.remainingRequests,
                                                hdr.limit)
                                         ELSE ""]]
  /\ UNCHANGED warnFrame

\* the response of an admitted request finishes with status code: the
\* finish listener calls revertRateLimit when shouldRevert holds, which sends
\* the revert script on the connection (0 in the queue of scripts)
WarnFinish(s, code) ==
  /\ hdr.flight[s].pc = "handling"
  /\ hdr' = [hdr EXCEPT
                !.flight[s] = IdleFlight,
                !.evals = IF ShouldRevert(hdr.opts, code) THEN Append(@, 0) ELSE @]
  /\ UNCHANGED warnFrame

\* the store runs a revert script, the oldest script sent: ZREM of the
\* newest member when the key holds one
WarnRevert ==
  /\ hdr.evals # <<>>
  /\ Head(hdr.evals) = 0
  /\ hdr' = [hdr EXCEPT
                !.count = IF @ > 0 THEN @ - 1 ELSE 0,
                !.evals = Tail(@)]
  /\ UNCHANGED warnFrame

NextWarn ==
  \/ \E s \in WarnSlots : WarnStart(s)
  \/ WarnEval
  \/ WarnReply
  \/ \E s \in WarnSlots : WarnAnswer(s)
  \/ \E s \in WarnSlots, code \in HandlerStatus : WarnFinish(s, code)
  \/ WarnRevert

SpecWarn == InitWarn /\ [][NextWarn]_vars

\* ------------------------------------------------------------------------
\* The worker: jobs start and finish, termination signals arrive, and each
\* starts a run of the shutdown closure; each call on the queues or the
\* store resolves or rejects.
\* ------------------------------------------------------------------------
InitWorker ==
  /\ now = 0
  /\ rule = BurstRule
  /\ enableInMemoryFallback = FALSE
  /\ faultMode = "up"
  /\ key = EmptyKey
  /\ localCache = NoLocal
  /\ cb = NewBreaker
  /\ calls = [c \in Callers |-> IdleCall]
  /\ log = {}
  /\ nextId = 1
  /\ overlap = FALSE
  /\ streak = 0
  /\ ret = NoReturn
  /\ last = NoResult
  /\ reqs = [r \in Slots |-> IdleReq]
  /\ mwKeys = [k \in KeyNames |-> EmptyKey]
  /\ mwNext = 1
  /\ mwOpts = DefaultOptions
  /\ mwReverts = {}
  /\ mwHist = NoHistory
  /\ mwMode = "single"
  /\ mwJobs = {}
  /\ kgRules = NoConfigs
  /\ kgKeys = <<>>
  /\ idReq = NoRequest
  /\ idOut = Extracted(NoRequest)
  /\ admin = NoAnswer
  /\ worker = NewWorker
  /\ ops = NoOps
  /\ sweep = NoSweep
  /\ pick = NoPick
  /\ hdr = NoHeaders
  /\ throttle = NoThrottle

workerFrame == <<rule, enableInMemoryFallback, faultMode, key, localCache, cb,
                calls, log, nextId, overlap, cbAux, mwVars, kgVars, admin, sweep,
                pick, hdr, throttle, ops>>

\* the clock advances: up to WorkerSignalTicks steps, and beyond them while
\* a run of the shutdown closure waits for getQueueStats within its
\* timeout or for the timer of its loop, and no run waits for pauseQueues,
\* closeQueues or disconnect to settle
WorkerTick ==
  /\ worker.exit = "none"
  /\ \/ now < WorkerSignalTicks * pollInterval
     \/ /\ \A c \in ShutdownRuns :
             worker.run[c].pc \notin {"pausing", "closing", "disconnecting"}
        /\ \E c \in ShutdownRuns :
             \/ /\ worker.run[c].pc \in {"polling", "stats"}
                /\ now - worker.run[c].start < shutdownTimeout
             \/ /\ worker.run[c].pc = "sleeping"
                /\ now < worker.run[c].wake
  /\ now' = now + pollInterval
  /\ UNCHANGED worker
  /\ UNCHANGED workerFrame

\* a queue hands a job to its processor
JobStart ==
  /\ worker.exit = "none"
  /\ ~worker.paused /\ ~worker.queuesClosed
  /\ worker.active < WorkerJobs
  /\ worker' = [worker EXCEPT !.active = worker.active + 1]
  /\ UNCHANGED now
  /\ UNCHANGED workerFrame

\* a processor finishes its job
JobDone ==
  /\ worker.exit = "none"
  /\ worker.active > 0
  /\ worker' = [worker EXCEPT !.active = worker.active - 1]
  /\ UNCHANGED now
  /\ UNCHANGED workerFrame

\* SIGTERM or SIGINT, within the first WorkerSignalTicks clock steps: the
\* listener installed by the constructor runs first, starts a run of the
\* shutdown closure and sets isShuttingDown, so that the listener installed
\* by start() returns at once
Signal(c) ==
  /\ worker.exit = "none"
  /\ now <= WorkerSignalTicks * pollInterval
  /\ worker.run[c].pc = "idle"
  /\ \A d \in ShutdownRuns : d < c => worker.run[d].pc # "idle"
  /\ worker' = [worker EXCEPT !.run[c].pc = "pausing", !.isShuttingDown = TRUE]
  /\ UNCHANGED now
  /\ UNCHANGED workerFrame

\* a rejected call lands in the catch block of run c: process.exit(1)
ExitOnError(w, c) == [w EXCEPT !.run[c].pc = "exited", !.exit = "1"]

\* await queueService.pauseQueues(), then the head of waitForJobsToComplete
PauseQueues(c, ok) ==
  /\ worker.exit = "none"
  /\ worker.run[c].pc = "pausing"
  /\ worker' = IF ok
               THEN [worker EXCEPT !.run[c].pc = "polling", !.paused = TRUE,
                                   !.run[c].start = now]
               ELSE ExitOnError(worker, c)
  /\ UNCHANGED now
  /\ UNCHANGED workerFrame

\* the head of the loop of waitForJobsToComplete: while the time is not up
\* getQueueStats is called, and the wait ends when it is
Poll(c) ==
  /\ worker.exit = "none"
  /\ worker.run[c].pc = "polling"
  /\ worker' = IF now - worker.run[c].start < shutdownTimeout
               THEN [worker EXCEPT !.run[c].pc = "stats"]
               ELSE [worker EXCEPT !.run[c].pc = "closing"]
  /\ UNCHANGED now
  /\ UNCHANGED workerFrame

\* getQueueStats settles: the loop ends when it rejects or when no job is
\* active, and otherwise awaits its timer
QueueStats(c, ok) ==
  /\ worker.exit = "none"
  /\ worker.run[c].pc = "stats"
  /\ worker' = IF ~ok \/ worker.active = 0
               THEN [worker EXCEPT !.run[c].pc = "closing"]
               ELSE [worker EXCEPT !.run[c].pc = "sleeping",
                                   !.run[c].wake = now + pollInterval]
  /\ UNCHANGED now
  /\ UNCHANGED workerFrame

\* the timer of the loop fires
Wake(c) ==
  /\ worker.exit = "none"
  /\ worker.run[c].pc = "sleeping"
  /\ now >= worker.run[c].wake
  /\ worker' = [worker EXCEPT !.run[c].pc = "polling", !.run[c].wake = 0]
  /\ UNCHANGED now
  /\ UNCHANGED workerFrame

\* await queueService.closeQueues()
CloseQueues(c, ok) ==
  /\ worker.exit = "none"
  /\ worker.run[c].pc = "closing"
  /\ worker' = IF ok
               THEN [worker EXCEPT !.run[c].pc = "disconnecting",
                                   !.queuesClosed = TRUE]
               ELSE ExitOnError(worker, c)
  /\ UNCHANGED now
  /\ UNCHANGED workerFrame

\* await redisService.disconnect(), then process.exit(0)
Disconnect(c, ok) ==
  /\ worker.exit = "none"
  /\ worker.run[c].pc = "disconnecting"
  /\ worker' = IF ok
               THEN [worker EXCEPT !.run[c].pc = "exited", !.storeClosed = TRUE,
                                   !.exit = "0"]
               ELSE ExitOnError(worker, c)
  /\ UNCHANGED now
  /\ UNCHANGED workerFrame

\* a run of the shutdown closure goes on
ShutdownStep ==
  \E c \in ShutdownRuns :
    \/ \E ok \in BOOLEAN : PauseQueues(c, ok)
    \/ Poll(c)
    \/ \E ok \in BOOLEAN : QueueStats(c, ok)
    \/ Wake(c)
    \/ \E ok \in BOOLEAN : CloseQueues(c, ok)
    \/ \E ok \in BOOLEAN : Disconnect(c, ok)

NextWorker ==
  \/ WorkerTick
  \/ JobStart
  \/ JobDone
  \/ \E c \in ShutdownRuns : Signal(c)
  \/ ShutdownStep

SpecWorker == InitWorker /\ [][NextWorker]_vars

\* QueueService.resumeQueues(), which the worker never calls, on queues
\* that are open: both hand out jobs again
ResumeQueues ==
  /\ worker.exit = "none"
  /\ ~worker.queuesClosed
  /\ worker' = [worker EXCEPT !.paused = FALSE]
  /\ UNCHANGED now
  /\ UNCHANGED workerFrame

\* the worker with a caller of resumeQueues beside it
NextWorkerOps ==
  \/ NextWorker
  \/ ResumeQueues

SpecWorkerOps == InitWorker /\ [][NextWorkerOps]_vars

\* Every call the shutdown closure awaits settles, and the clock advances;
\* a job may run for ever.
SpecWorkerFair == SpecWorker /\ WF_vars(ShutdownStep) /\ WF_vars(WorkerTick)

\* ------------------------------------------------------------------------
\* The CLEANUP job of one denial among the keys of several clients.
\* ------------------------------------------------------------------------
InitSweep ==
  /\ now = 0
  /\ rule = BurstRule
  /\ enableInMemoryFallback = FALSE
  /\ faultMode = "up"
  /\ key = EmptyKey
  /\ localCache = NoLocal
  /\ cb = NewBreaker
  /\ calls = [c \in Callers |-> IdleCall]
  /\ log = {}
  /\ nextId = 1
  /\ overlap = FALSE
  /\ streak = 0
  /\ ret = NoReturn
  /\ last = NoResult
  /\ reqs = [r \in Slots |-> IdleReq]
  /\ mwKeys = [k \in KeyNames |-> EmptyKey]
  /\ mwNext = 1
  /\ mwOpts = DefaultOptions
  /\ mwReverts = {}
  /\ mwHist = NoHistory
  /\ mwMode = "single"
  /\ mwJobs = {PeriodicJob}
  /\ kgRules = NoConfigs
  /\ kgKeys = <<>>
  /\ idReq = NoRequest
  /\ idOut = Extracted(NoRequest)
  /\ admin = NoAnswer
  /\ worker = NewWorker
  /\ ops = NoOps
  /\ sweep = NoSweep
  /\ pick = NoPick
  /\ hdr = NoHeaders
  /\ throttle = NoThrottle

sweepFrame == <<now, rule, enableInMemoryFallback, faultMode, key, localCache,
               cb, calls, log, nextId, overlap, cbAux, mwVars, kgVars, admin,
               worker, pick, hdr, throttle, ops>>

\* requests of up to SweepClients clients have left keys at the store
SweepSeed(store) ==
  /\ sweep.pc = "idle"
  /\ store # {}
  /\ Cardinality({ c[1] : c \in store }) <= SweepClients
  /\ sweep' = [sweep EXCEPT !.pc = "seeded", !.store = store]
  /\ UNCHANGED sweepFrame

\* a rule denies a client: queueCleanupJob enqueues the job for its key
SweepDeny(c) ==
  /\ sweep.pc = "seeded"
  /\ c \in sweep.store
  /\ sweep' = [sweep EXCEPT !.pc = "queued", !.owner = c,
                            !.pattern = CleanupPattern(c)]
  /\ UNCHANGED sweepFrame

\* during the cleanupDelay before the job runs, and while its processor
\* awaits the store, a key expires or a request sets one
SweepChange(c) ==
  /\ sweep.pc \in {"queued", "scanning"}
  /\ LET store == IF c \in sweep.store THEN sweep.store \ {c}
                  ELSE sweep.store \cup {c}
     IN  /\ Cardinality({ d[1] : d \in store }) <= SweepClients
         /\ sweep' = [sweep EXCEPT !.store = store]
  /\ UNCHANGED sweepFrame

\* the processor runs the job: cleanupExpiredKeys up to the reply of
\* redis.keys, which ends it when no key matches
SweepProcess ==
  /\ sweep.pc = "queued"
  /\ LET found == Swept(sweep.store, sweep.pattern)
     IN  sweep' = [sweep EXCEPT !.pc = IF found = {} THEN "done" ELSE "scanning",
                                !.found = found]
  /\ UNCHANGED sweepFrame

\* the pipeline of DELs reaches the store: every key found that still
\* exists is deleted
SweepDel ==
  /\ sweep.pc = "scanning"
  /\ sweep' = [sweep EXCEPT !.pc = "done",
                            !.deleted = sweep.found \cap sweep.store,
                            !.store = sweep.store \ sweep.found]
  /\ UNCHANGED sweepFrame

NextSweep ==
  \/ \E store \in SUBSET Counters : SweepSeed(store)
  \/ \E c \in Counters : SweepDeny(c)
  \/ \E c \in Counters : SweepChange(c)
  \/ SweepProcess
  \/ SweepDel

SpecSweep == InitSweep /\ [][NextSweep]_vars

\* ------------------------------------------------------------------------
\* The choice among the results of one request, as a function of the results.
\* ------------------------------------------------------------------------
InitPick ==
  /\ now = 0
  /\ rule = BurstRule
  /\ enableInMemoryFallback = FALSE
  /\ faultMode = "up"
  /\ key = EmptyKey
  /\ localCache = NoLocal
  /\ cb = NewBreaker
  /\ calls = [c \in Callers |-> IdleCall]
  /\ log = {}
  /\ nextId = 1
  /\ overlap = FALSE
  /\ streak = 0
  /\ ret = NoReturn
  /\ last = NoResult
  /\ reqs = [r \in Slots |-> IdleReq]
  /\ mwKeys = [k \in KeyNames |-> EmptyKey]
  /\ mwNext = 1
  /\ mwOpts = DefaultOptions
  /\ mwReverts = {}
  /\ mwHist = NoHistory
  /\ mwMode = "single"
  /\ mwJobs = {PeriodicJob}
  /\ kgRules = NoConfigs
  /\ kgKeys = <<>>
  /\ idReq = NoRequest
  /\ idOut = Extracted(NoRequest)
  /\ admin = NoAnswer
  /\ worker = NewWorker
  /\ ops = NoOps
  /\ sweep = NoSweep
  /\ \E a \in ResultChoices(PickRules[1], 0), b \in ResultChoices(PickRules[2], 0),
        c \in ResultChoices(PickRules[3], 0), d \in ResultChoices(PickRules[4], 0) :
       pick = [NoPick EXCEPT !.res = <<a, b, c, d>>]
  /\ hdr = NoHeaders
  /\ throttle = NoThrottle

pickFrame == <<now, rule, enableInMemoryFallback, faultMode, key, localCache, cb,
              calls, log, nextId, overlap, cbAux, mwVars, kgVars, admin, worker,
              sweep, hdr, throttle, ops>>

\* the middleware from the filter of the results to the choice of the
\* result the headers are set from
PickCompose ==
  LET active  == ActiveResults(pick.res)
      blocked == FindBlocked(active, pick.res)
  IN  /\ ~pick.composed
      /\ pick' = [pick EXCEPT
                    !.composed = TRUE,
                    !.blocked = blocked,
                    !.winner = IF active = <<>> THEN 0
                               ELSE IF blocked # 0 THEN blocked
                               ELSE FinalResultOf(PickRules, active)]
      /\ UNCHANGED pickFrame

NextPick == PickCompose

SpecPick == InitPick /\ [][NextPick]_vars

\* ------------------------------------------------------------------------
\* The reset endpoint over the keys of the store: requests are admitted and
\* leave keys, and POST /admin/reset-rate-limit is called with every kind of
\* body, with the store answering DEL or not.
\* ------------------------------------------------------------------------
InitReset ==
  /\ now = 0
  /\ rule = BurstRule
  /\ enableInMemoryFallback = FALSE
  /\ faultMode = "up"
  /\ key = EmptyKey
  /\ localCache = NoLocal
  /\ cb = NewBreaker
  /\ calls = [c \in Callers |-> IdleCall]
  /\ log = {}
  /\ nextId = 1
  /\ overlap = FALSE
  /\ streak = 0
  /\ ret = NoReturn
  /\ last = NoResult
  /\ reqs = [r \in Slots |-> IdleReq]
  /\ mwKeys = [k \in KeyNames |-> EmptyKey]
  /\ mwNext = 1
  /\ mwOpts = DefaultOptions
  /\ mwReverts = {}
  /\ mwHist = NoHistory
  /\ mwMode = "single"
  /\ mwJobs = {PeriodicJob}
  /\ kgRules = NoConfigs
  /\ kgKeys = <<>>
  /\ idReq = NoRequest
  /\ idOut = Extracted(NoRequest)
  /\ admin = NoAnswer
  /\ worker = NewWorker
  /\ ops = NoOps
  /\ sweep = NoSweep
  /\ pick = NoPick
  /\ hdr = NoHeaders
  /\ throttle = NoThrottle

resetFrame == <<now, rule, enableInMemoryFallback, faultMode, key,
               cb, calls, log, nextId, overlap, cbAux, reqs, mwNext, mwOpts,
               mwReverts, mwHist, mwMode, mwJobs, kgVars, worker, sweep, pick,
               hdr, ops>>

\* a first request of a client is counted under a rule
ResetSeed(kn) ==
  /\ kn[2] \in {ClientIdent, OwnIdent("/api/data")}
  /\ kn[2] = RuleIdent(kn[1], "/api/data")
  /\ mwKeys[kn] = EmptyKey
  /\ mwKeys' = [mwKeys EXCEPT ![kn] =
                  SlidingScript(EmptyKey, now, MWRules[kn[1]], TRUE, 1, now).key]
  /\ UNCHANGED <<admin, localCache, throttle>>
  /\ UNCHANGED resetFrame

\* POST /admin/reset-rate-limit: the handler as far as its answer 400 or
\* the first DEL of resetRateLimit
ResetRequest(body) ==
  /\ admin.pc = "idle"
  /\ IF resetRateLimitRoute(body) # 0
     THEN /\ admin' = [NoAnswer EXCEPT !.status = resetRateLimitRoute(body),
                                       !.body = body]
          /\ UNCHANGED <<mwKeys, localCache, throttle>>
     ELSE ResetIssue(body, body.identifier.val, ResetOrder(body.ruleId))
  /\ UNCHANGED resetFrame

\* the store runs the DEL, or the DEL fails
ResetExec(storeOk) ==
  /\ ResetDel(storeOk)
  /\ UNCHANGED resetFrame

\* the outcome of the DEL is taken up
ResetNext ==
  /\ ResetReply
  /\ UNCHANGED resetFrame

NextReset ==
  \/ \E kn \in KeyNames : ResetSeed(kn)
  \/ \E identifier \in IdentifierInputs, ruleId \in RuleIdInputs :
       ResetRequest([identifier |-> identifier, ruleId |-> ruleId])
  \/ \E storeOk \in BOOLEAN : ResetExec(storeOk)
  \/ ResetNext

SpecReset == InitReset /\ [][NextReset]_vars

\* ------------------------------------------------------------------------
\* Properties of the circuit breaker (SpecCB)
\* ------------------------------------------------------------------------
\* steps of one caller
StartsPrimary(c) == calls[c].pc = "idle" /\ calls'[c].pc = "op"
SuccStep(c) == calls[c].pc = "op" /\ calls'[c].pc = "idle" /\ ret'.via = "primary"
FailStep(c) == calls[c].pc = "op" /\ calls'[c].pc = "idle" /\ ret'.via = "fallback"
\* some caller enters execute()
ExecuteStep == nextId' = nextId + 1

\* C7: from CLOSED the breaker goes to OPEN exactly on the failure that
\* brings the number of failures since the last success to
\* failureThreshold; a success while CLOSED resets failures to 0 and leaves
\* the breaker CLOSED.
C7_OpensAtThreshold ==
  [][cb.state = "CLOSED" =>
       /\ (cb'.state = "OPEN" <=>
             ((\E c \in Callers : FailStep(c)) /\ streak' = failureThreshold))
       /\ ((\E c \in Callers : SuccStep(c)) =>
             cb'.failures = 0 /\ cb'.state = "CLOSED")]_vars

\* the breaker has just opened on the failureThreshold-th failure in a row
C7_Witness ==
  /\ cb.state = "OPEN"
  /\ streak = failureThreshold
  /\ ret.via = "fallback" /\ ret.ran
  /\ cb.lastFailureTime = now

\* C8: an execute() entered while the breaker is OPEN and no more than
\* recoveryTimeout has passed since the last failure does not invoke the
\* operation and returns the result of the fallback.
C8_OpenSkipsPrimary ==
  [][(cb.state = "OPEN" /\ now - cb.lastFailureTime <= recoveryTimeout /\ ExecuteStep)
       => /\ calls' = calls
          /\ ret' = [id |-> nextId, via |-> "fallback", ran |-> FALSE]]_vars

\* an execute() was answered by the fallback, without the operation, exactly
\* recoveryTimeout after the last failure
C8_Witness ==
  /\ cb.state = "OPEN"
  /\ now - cb.lastFailureTime = recoveryTimeout
  /\ ret.via = "fallback" /\ ~ret.ran
  /\ ret.id = nextId - 1

\* C9: once more than recoveryTimeout has passed since the last failure of
\* an OPEN breaker, the next execute() attempts the operation; if that
\* attempt succeeds the breaker is CLOSED with failures 0, and if it fails
\* the breaker is OPEN again with lastFailureTime refreshed.
C9_ProbeOutcome ==
  [][/\ (cb.state = "OPEN" /\ now - cb.lastFailureTime > recoveryTimeout /\ ExecuteStep)
          => \E c \in Callers : StartsPrimary(c)
     /\ \A c \in Callers :
          /\ (calls[c].probe /\ SuccStep(c)) => cb'.state = "CLOSED" /\ cb'.failures = 0
          /\ (calls[c].probe /\ FailStep(c)) =>
               cb'.state = "OPEN" /\ cb'.lastFailureTime = now]_vars

\* C10: while the probing call of a HALF_OPEN breaker is in flight, no
\* other execute() invokes the operation.
C10_SingleProbe ==
  [][(cb.state = "HALF_OPEN" /\ \E p \in Callers : calls[p].pc = "op" /\ calls[p].probe)
       => \A c \in Callers : ~StartsPrimary(c)]_vars

\* C37: an OPEN breaker stays OPEN, with its failure count kept, until more
\* than recoveryTimeout has passed since the last failure: the late success
\* of an operation started before the breaker opened neither closes it nor
\* resets the count.
C37_OpenUntilRecovery ==
  [][(cb.state = "OPEN" /\ now - cb.lastFailureTime <= recoveryTimeout) =>
       /\ cb'.state = "OPEN"
       /\ cb'.failures >= cb.failures]_vars

\* some execute() returns what the fallback closure returned
FallbackStep ==
  \/ \E c \in Callers : FailStep(c)
  \/ ExecuteStep /\ calls' = calls

\* C11: when the fallback branch of the breaker runs and the in-memory
\* fallback is disabled, the cache returns allowed = true, remaining =
\* maxRequests, resetTime = now + windowMs and no retryAfter, and the local
\* cache is left as it was.
C11_FailOpenDefault ==
  [][(FallbackStep /\ ~enableInMemoryFallback) =>
       /\ last'.allowed
       /\ last'.totalRequests = 0
       /\ last'.remainingRequests = rule.maxRequests
       /\ last'.resetTime = now + rule.windowMs
       /\ ~last'.hasRetryAfter
       /\ localCache' = localCache]_vars

\* the fallback answered after the clock has moved, both for a rejected
\* operation and (later) for an open breaker, with the fallback disabled
C11_Witness ==
  /\ ~enableInMemoryFallback
  /\ cb.state = "OPEN"
  /\ ret.via = "fallback" /\ ~ret.ran
  /\ now > cb.lastFailureTime /\ cb.lastFailureTime > 0
  /\ last.resetTime = now + rule.windowMs
  /\ localCache = NoLocal

\* C33: in the in-memory fallback a call that finds count >= maxRequests in
\* the current window is denied without incrementing: the count of the entry
\* in the local cache never exceeds maxRequests.
C33_InMemoryCountBounded ==
  localCache.found => localCache.entry.count <= rule.maxRequests

\* ------------------------------------------------------------------------
\* Properties of check-and-increment (Spec)
\* ------------------------------------------------------------------------
Admitted == { d \in log : d.allowed }

\* admitted decisions whose arrival timestamp lies in (T - W, T]
AdmittedIn(T) ==
  { d \in Admitted : d.arrival > T - rule.windowMs /\ d.arrival <= T }

\* C1: with the store reachable and the key empty at first, sequential
\* calls whose timestamps all lie within one window are allowed exactly when
\* they are among the first maxRequests, and a denied call leaves no member
\* in the sorted set.
C1_SerialBurst ==
  (/\ faultMode = "up"
   /\ ~overlap
   /\ \A d, e \in log : e.arrival - d.arrival < rule.windowMs)
  => /\ \A d \in log : d.allowed <=> d.id <= rule.maxRequests
     /\ \A m \in key.members : \A d \in log : d.id = m[2] => d.allowed

\* C2: with the store reachable, under any interleaving of the calls, the
\* admitted requests whose timestamps lie in one rolling window of
\* rule.windowMs never number more than rule.maxRequests.
C2_NoOvershoot ==
  faultMode = "up" =>
    \A d \in log : Cardinality(AdmittedIn(d.arrival)) <= rule.maxRequests

\* the first fallback window: from the earliest arrival, for rule.windowMs
FirstWindow ==
  { d \in log : \A e \in log : d.arrival < e.arrival + rule.windowMs }

\* C5: with the in-memory fallback enabled and the store unreachable for
\* every call, the requests admitted for the key within one fallback window
\* never number more than rule.maxRequests.
C5_FallbackBound ==
  (faultMode = "down" /\ enableInMemoryFallback) =>
    Cardinality(FirstWindow \cap Admitted) <= rule.maxRequests

\* decisions of calls whose store command failed
Errored == { d \in log : d.err }

\* C6: a store error during check-and-increment is counted as a failure by
\* the breaker, so failureThreshold consecutive store failures open it.
C6_StoreErrorCounted ==
  faultMode = "down" =>
    /\ cb.failures >= Min2(Cardinality(Errored), failureThreshold)
    /\ Cardinality(Errored) >= failureThreshold => cb.state = "OPEN"

\* the timestamps of the key that are inside the window ending at t
KeyWindow(k, t) == { m \in Live(k, t).members : m[1] > t - rule.windowMs }

\* the call of caller c, which is on the error path of slidingWindowCheck,
\* takes a step
ErrorPathStep(c) == calls[c].err /\ calls'[c] # calls[c]

\* C40: an error of the sliding-window script for a key, with the store
\* otherwise reachable, discards none of the key's in-window timestamps:
\* every step of the error path leaves them in the sorted set.
C40_ErrorKeepsTimestamps ==
  [][\A c \in Callers : ErrorPathStep(c) =>
       KeyWindow(key, now) \subseteq KeyWindow(key', now)]_vars

\* ------------------------------------------------------------------------
\* Properties of one client's serial calls (SpecSerial)
\* ------------------------------------------------------------------------
\* the first admitted request of the client
FirstAdmitted(f) == f \in Admitted /\ \A e \in Admitted : f.id <= e.id

\* p is the first request made more than windowMs after the first admitted
\* request
AfterFirst(p) ==
  \E f \in Admitted :
    /\ FirstAdmitted(f)
    /\ p.arrival > f.arrival + rule.windowMs
    /\ \A d \in log : d.arrival > f.arrival + rule.windowMs => p.id <= d.id

\* p is made more than windowMs after every request admitted before it
AfterLast(p) ==
  /\ \E e \in Admitted : e.id < p.id
  /\ \A e \in Admitted : e.id < p.id => p.arrival > e.arrival + rule.windowMs

\* p and the calls after it, maxRequests in all, are admitted
FullQuota(p) ==
  \A d \in log : (p.id <= d.id /\ d.id < p.id + rule.maxRequests) => d.allowed

\* C23: once more than windowMs has passed since the client's first
\* admitted request, its next maxRequests requests are all admitted.
C23_RolloverFromFirst == \A p \in log : AfterFirst(p) => FullQuota(p)

\* C23, amended: once more than windowMs has passed since the client's last
\* admitted request, its next maxRequests requests are all admitted.
C23_RolloverFromLast == \A p \in log : AfterLast(p) => FullQuota(p)

C23_Witness ==
  \E p, d \in log :
    /\ AfterLast(p)
    /\ rule.maxRequests = 2
    /\ d.id = p.id + 1
    /\ d.allowed
    /\ Cardinality(Admitted) = 4

\* maxRequests requests with timestamp 0 were admitted, and a request with
\* timestamp windowMs / 2 is denied
HalfWindowDenied ==
  Cardinality({ d \in Admitted : d.arrival = 0 }) = rule.maxRequests =>
    \A d \in log : 2 * d.arrival = rule.windowMs => ~d.allowed

\* the script of a call with a timestamp beyond windowMs runs on a sorted
\* set that holds only members of timestamp 0, and counts the call alone
PurgedAfterWindow ==
  (/\ calls[1].pc = "sliding" /\ calls'[1].pc = "reply"
   /\ \A m \in key.members : m[1] = 0
   /\ calls[1].t > rule.windowMs)
  => /\ calls'[1].data.count = 1
     /\ \A m \in key'.members : m[1] = calls[1].t

\* C24: after maxRequests requests admitted at time 0 a request at
\* windowMs / 2 is denied, and a check at any time beyond windowMs finds the
\* members of time 0 purged: the stored count is 0 before the new request
\* is counted.
C24_SlidingSmoothness == [][HalfWindowDenied' /\ PurgedAfterWindow]_vars

\* ------------------------------------------------------------------------
\* Properties of the middleware (SpecMW)
\* ------------------------------------------------------------------------
\* requests whose results have been composed
Composed == { r \in Slots : reqs[r].pc = "done" /\ reqs[r].fault = "none" }

\* rules with a non-inert result for the request in slot r
ActiveSet(r) == { i \in RuleIds : reqs[r].res[i].st = "done" }
DeniedSet(r) == { i \in ActiveSet(r) : ~reqs[r].res[i].allowed }

\* C3: when some non-inert rule denies a request, the denial callback is
\* invoked with the status code of the denying rule and next() is not
\* called, also when enqueueing the cleanup job fails.
C3_DenialNeverForwards ==
  \A r \in Composed :
    DeniedSet(r) # {} =>
      /\ reqs[r].out.status \in { StatusCode(i) : i \in DeniedSet(r) }
      /\ ~reqs[r].out.nextCalled

\* C4: the decision used among the non-inert results is the first denied
\* one in rule order if there is one, otherwise one whose rule has the
\* smallest maxRequests.
C4_WinningDecision ==
  \A r \in Composed :
    ActiveSet(r) # {} =>
      LET w == reqs[r].out.winner
      IN  /\ w \in ActiveSet(r)
          /\ DeniedSet(r) # {} =>
               w \in DeniedSet(r) /\ \A i \in DeniedSet(r) : w <= i
          /\ DeniedSet(r) = {} =>
               \A i \in ActiveSet(r) : MWRules[w].maxRequests <= MWRules[i].maxRequests

\* a request that every rule of the server evaluates and allows, whose
\* decision is that of the auth rule (the smallest maxRequests), which is
\* neither the first nor the last rule
C4_Witness ==
  \E r \in Composed :
    /\ DeniedSet(r) = {}
    /\ Cardinality(ActiveSet(r)) = Len(MWRules)
    /\ reqs[r].out.winner = 3
    /\ \A i \in RuleIds \ {3} : MWRules[3].maxRequests < MWRules[i].maxRequests

\* checkRule of rule i resolves for the request in slot r in this step
CheckedStep(r, i) ==
  reqs[r].res[i].st = "evaluated" /\ reqs'[r].res[i].st = "done"

\* C22: retryAfter is present exactly on denials, where it is
\* ceil((resetTime - now) / 1000) with now read when the result is built, is
\* positive and is at most ceil(windowMs / 1000).
C22_RetryAfterRange ==
  [][\A r \in Slots, i \in RuleIds :
       CheckedStep(r, i) =>
         LET res == reqs'[r].res[i]
             W   == MWRules[i].windowMs
         IN  /\ res.hasRetryAfter <=> ~res.allowed
             /\ ~res.allowed =>
                  /\ res.retryAfter = CeilDiv(reqs[r].t + W - now, 1000)
                  /\ res.retryAfter >= 1
                  /\ res.retryAfter <= CeilDiv(W, 1000)]_vars

\* the keys of rules other than rule i under which the request in slot r
\* has left a timestamp
LeftByRequest(r, i) ==
  { kn \in KeyNames : kn[1] # i /\ \E m \in mwKeys[kn].members : m[2] = reqs[r].id }

\* C35: a request that a rule denies leaves the counters of all other rules
\* unchanged: it consumes no quota under any rule.
C35_DenialConsumesNothing ==
  \A r \in Slots :
    (reqs[r].pc = "done" /\ reqs[r].out.blocked # 0) =>
      LeftByRequest(r, reqs[r].out.blocked) = {}

\* ------------------------------------------------------------------------
\* Properties of the middleware, one request at a time (SpecMWSeq)
\* ------------------------------------------------------------------------
\* no request is in flight and the store has run every command issued
Quiet == (\A r \in Slots : reqs[r].pc = "idle") /\ mwReverts = {}

\* the number of timestamps the store holds under key kn
StoredCount(kn) == Cardinality(Live(mwKeys[kn], now).members)

\* C12: with skipSuccessfulRequests, once requests that were all admitted
\* and answered 2xx have finished and their reverts have been applied, the
\* stored count of every rule key is 0 again.
C12_RevertsRestoreCount ==
  (mwOpts.skipSuccessfulRequests /\ mwHist.clean /\ mwNext > 1 /\ Quiet) =>
    \A kn \in KeyNames : StoredCount(kn) = 0

\* the response of the request in slot r finishes in this step
FinishStep(r) == reqs[r].pc = "done" /\ reqs'[r].pc = "idle"

\* rules whose decision for the request in slot r was allowed
AllowedSet(r) == { i \in ActiveSet(r) : reqs[r].res[i].allowed }

\* the condition under which the counts of a response with this status are
\* to be given back
RevertDue(code) ==
  \/ mwOpts.skipSuccessfulRequests /\ 200 <= code /\ code < 300
  \/ mwOpts.skipFailedRequests /\ code >= 400

\* C13: reverts are issued only when a response finishes, only for the
\* rules that allowed the request, and exactly when skipSuccessfulRequests
\* is set and the status is 2xx or skipFailedRequests is set and the status
\* is at least 400; a denied request and any other status issue none.
C13_RevertExactlyWhenDue ==
  [][/\ (\A r \in Slots : ~FinishStep(r)) => mwReverts' \subseteq mwReverts
     /\ \A r \in Slots :
          FinishStep(r) =>
            { v.key[1] : v \in mwReverts' \ mwReverts } =
              IF DeniedSet(r) = {} /\ RevertDue(reqs[r].out.code)
              THEN AllowedSet(r) ELSE {}]_vars

\* timestamps under key kn that are inside the window of its rule at t
InWindow(k, kn, t) ==
  { m \in Live(k, t).members : m[1] > t - MWRules[kn[1]].windowMs }

\* a queue worker processes a cleanup job in this step
CleanupStep == \E j \in mwJobs : j.pc = "scanning" /\ j \notin mwJobs'

\* C14: processing a CLEANUP job or the periodic cleanup job deletes no
\* timestamp that is still inside the window of its rule.
C14_CleanupKeepsWindow ==
  [][CleanupStep =>
       \A kn \in KeyNames :
         InWindow(mwKeys'[kn], kn, now) = InWindow(mwKeys[kn], kn, now)]_vars

\* the store runs, in this step, the first check of rule i since the rule
\* was reset for the client it was denying, for the request in slot r
CheckAfterReset(r, i) ==
  /\ mwHist.fresh = i
  /\ reqs[r].id >= mwHist.since
  /\ reqs[r].res[i].st = "evaluated"
  /\ reqs'[r].res[i].st = "done"

\* C15: after resetRateLimit(identifier, ruleId) for a client that the rule
\* was denying, the next request of the client is admitted by the rule with
\* remaining = maxRequests - 1.
C15_ResetGivesFreshCounter ==
  [][\A r \in Slots, i \in RuleIds :
       CheckAfterReset(r, i) =>
         /\ reqs'[r].res[i].allowed
         /\ reqs'[r].res[i].remaining = MWRules[i].maxRequests - 1]_vars

\* C17: every response for which some rule was evaluated carries the
\* enabled legacy and standard rate-limit headers and the security headers,
\* and Retry-After when the request was denied, also when the denial is
\* handled by a callback supplied by the user.
C17_HeadersOnEveryResponse ==
  \A r \in Composed :
    ActiveSet(r) # {} =>
      /\ mwOpts.legacyHeaders => reqs[r].out.legacy
      /\ mwOpts.standardHeaders => reqs[r].out.standard
      /\ reqs[r].out.security
      /\ DeniedSet(r) # {} => reqs[r].out.retryAfterHdr

\* requests in which a key generator threw before a decision was reached
Failed == { r \in Slots : reqs[r].pc = "done" /\ reqs[r].fault # "none" }

\* C18: when an exception is raised in the middleware before a decision is
\* reached, the request is forwarded to the downstream handler, whose
\* response is the only one: the limiter answers nothing itself.
C18_ErrorFailsOpen ==
  \A r \in Failed :
    /\ reqs[r].out.error
    /\ reqs[r].out.nextCalled
    /\ reqs[r].out.status = 0
    /\ reqs[r].out.code \in HandlerStatus

\* options.keyGenerator threw for a request that the handler then answered
\* with 404; no rule was evaluated and nothing was counted
C18_Witness ==
  \E r \in Failed :
    /\ reqs[r].fault = "ident"
    /\ reqs[r].out.nextCalled
    /\ reqs[r].out.code = 404
    /\ ActiveSet(r) = {}
    /\ mwNext > 2

\* rules of the request in slot r whose skipIf or keyGenerator threw
ThrewSet(r) == { i \in RuleIds : reqs[r].res[i].st = "threw" }

\* the middleware is through with the request in slot r and the store has
\* run the evals it issued
Settled == { r \in Slots : reqs[r].pc = "done" /\ OpenRules(r) = {} }

\* C19: a rule whose skipIf or keyGenerator throws is inert for the request
\* and the decisions of the other rules are still composed: when one of
\* them denies, the request is denied.
C19_ThrowingRuleIsInert ==
  \A r \in Settled :
    (ThrewSet(r) # {} /\ DeniedSet(r) # {}) =>
      /\ ~reqs[r].out.nextCalled
      /\ reqs[r].out.status \in { StatusCode(i) : i \in DeniedSet(r) }

\* C20: when the denial callback throws, the limiter still answers with the
\* status code of the denying rule and does not forward the request.
C20_CallbackThrowStillDenies ==
  \A r \in Composed :
    (reqs[r].out.blocked # 0 /\ ~reqs[r].out.enqueueFailed /\ reqs[r].out.error) =>
      /\ ~reqs[r].out.nextCalled
      /\ reqs[r].out.code = StatusCode(reqs[r].out.blocked)

\* rules whose skipIf holds for a request for path
SkippedFor(path) == { i \in RuleIds : path \in MWRules[i].skips }

\* the middleware gets past await Promise.all for the request in slot r, for
\* which nothing throws, in this step
ComposedStep(r) ==
  /\ reqs[r].pc \in {"idle", "checking"}
  /\ reqs'[r].pc \in {"enqueuing", "done"}
  /\ reqs'[r].fault = "none"

\* the store answers a command of the request in slot r in this step
AnsweredStep(r) == reqs[r].pc # "idle" /\ reqs'[r].res # reqs[r].res

\* C21: a rule whose skipIf holds for a request runs no store command for
\* it and takes no part in the composition; when every rule is skipped the
\* request is forwarded, no rate-limit header is set and no key changes.
C21_SkippedRuleIsInert ==
  [][\A r \in Slots :
       /\ AnsweredStep(r) =>
            \A i \in SkippedFor(reqs[r].path), ident \in Idents :
              mwKeys'[<<i, ident>>] = mwKeys[<<i, ident>>]
       /\ ComposedStep(r) =>
            /\ \A i \in SkippedFor(reqs'[r].path) :
                 /\ reqs'[r].res[i].st = "inert"
                 /\ reqs'[r].out.winner # i
                 /\ reqs'[r].out.blocked # i
            /\ SkippedFor(reqs'[r].path) = RuleIds =>
                 /\ reqs'[r].out.nextCalled
                 /\ reqs'[r].out.status = 0
                 /\ ~reqs'[r].out.legacy
                 /\ ~reqs'[r].out.standard
                 /\ ~reqs'[r].out.retryAfterHdr
                 /\ ~reqs'[r].out.hooked
                 /\ mwKeys' = mwKeys]_vars

\* a request that every rule skips has been forwarded while the counter of
\* some rule is exhausted
C21_Witness ==
  \E r \in Slots :
    /\ reqs[r].pc = "done"
    /\ SkippedFor(reqs[r].path) = RuleIds
    /\ reqs[r].out.nextCalled
    /\ \E i \in RuleIds : StoredCount(<<i, ClientIdent>>) >= MWRules[i].maxRequests

\* C34: the reverts issued when a response finishes go, for every admitted
\* rule, to the key that the check of the request used for that rule, also
\* for a rule whose identifier comes from its own keyGenerator.
C34_RevertKeyIsCheckKey ==
  [][\A r \in Slots : FinishStep(r) =>
       \A v \in mwReverts' \ mwReverts :
         v.key = <<v.key[1], RuleIdent(v.key[1], reqs[r].path)>>]_vars

\* ------------------------------------------------------------------------
\* Properties of reverts among concurrent requests (SpecMWRevert)
\* ------------------------------------------------------------------------
\* the revert script that the store runs in this step
RevertRun(v) == v \in mwReverts /\ v \notin mwReverts'

\* the timestamps of key kn that the store holds at instant t
Held(keys, kn, t) == Live(keys[kn], t).members

\* C32: a revert removes exactly one timestamp from the current window of
\* its key, the newest one, when that window is not empty; it removes
\* nothing from the key when the window is empty; and it never removes more
\* than one entry.
C32_RevertRemovesOne ==
  [][\A v \in mwReverts : RevertRun(v) =>
       LET before == InWindow(mwKeys[v.key], v.key, now)
           after  == InWindow(mwKeys'[v.key], v.key, now)
       IN  /\ before # {} =>
                \E m \in before : /\ after = before \ {m}
                                   /\ \A n \in before : n[1] <= m[1]
           /\ before = {} =>
                Held(mwKeys', v.key, now) = Held(mwKeys, v.key, now)
           /\ Held(mwKeys', v.key, now) \subseteq Held(mwKeys, v.key, now)
           /\ Cardinality(Held(mwKeys, v.key, now) \ Held(mwKeys', v.key, now)) <= 1
           /\ \A kn \in KeyNames : kn # v.key => mwKeys'[kn] = mwKeys[kn]]_vars

\* the parts of C32: what a revert does to a window that holds a timestamp
\* (with the bound of one entry and the other keys untouched), and what it
\* does to the key when the window is empty
C32_OneFromWindow ==
  [][\A v \in mwReverts : RevertRun(v) =>
       LET before == InWindow(mwKeys[v.key], v.key, now)
           after  == InWindow(mwKeys'[v.key], v.key, now)
       IN  /\ before # {} =>
                \E m \in before : /\ after = before \ {m}
                                   /\ \A n \in before : n[1] <= m[1]
           /\ Held(mwKeys', v.key, now) \subseteq Held(mwKeys, v.key, now)
           /\ Cardinality(Held(mwKeys, v.key, now) \ Held(mwKeys', v.key, now)) <= 1
           /\ \A kn \in KeyNames : kn # v.key => mwKeys'[kn] = mwKeys[kn]]_vars

C32_NothingWhenEmpty ==
  [][\A v \in mwReverts : RevertRun(v) =>
       (InWindow(mwKeys[v.key], v.key, now) = {} =>
          Held(mwKeys', v.key, now) = Held(mwKeys, v.key, now))]_vars

\* requests in flight that rule kn[1] admitted under key kn inside the window
\* that ends now, and whose response has a status that calls for no revert
MustCount(kn) ==
  { r \in Slots :
      /\ reqs[r].pc = "done" /\ reqs[r].out.hooked
      /\ ~ShouldRevert(mwOpts, reqs[r].out.code)
      /\ reqs[r].res[kn[1]].st = "done" /\ reqs[r].res[kn[1]].allowed
      /\ RuleIdent(kn[1], reqs[r].path) = kn[2]
      /\ reqs[r].t > now - MWRules[kn[1]].windowMs }

\* C36: the stored in-window count of a key is at least the number of
\* in-window admitted requests that have not qualified for a revert,
\* whatever the interleaving of admissions and response completions.
C36_RevertSparesOthers ==
  \A kn \in KeyNames :
    Cardinality(InWindow(mwKeys[kn], kn, now)) >= Cardinality(MustCount(kn))

\* ------------------------------------------------------------------------
\* Properties of key generation (SpecKey)
\* ------------------------------------------------------------------------
\* C16: two rule configurations that differ in id, windowMs or maxRequests
\* get different keys for the same client identifier.
C16_DistinctConfigsDistinctKeys ==
  (kgKeys # <<>> /\ kgRules[1] # kgRules[2]) => kgKeys[1] # kgKeys[2]

\* ------------------------------------------------------------------------
\* Properties of the local throttle (SpecThrottle)
\* ------------------------------------------------------------------------
\* the throttle has acted on a request, under a burst rule with a limit
Throttled ==
  /\ throttle.seen.identifier # "none"
  /\ throttle.burst.present
  /\ throttle.burst.maxRequests > 0

\* C27: with the local throttle enabled, the delay applied to a request is
\* max(0, min_interval - (now - last)) capped at maxThrottleDelay, it is 0
\* for the first request of an identifier, and the throttle does not answer
\* the request: it goes on to the rules.
C27_ThrottleDelay ==
  /\ throttle.seen.status = 0
  /\ Throttled =>
       LET seen      == throttle.seen
           limit     == throttle.burst.maxRequests
           sinceLast == seen.at - seen.found
           \* min_interval - (now - last), as a fraction over limit
           gap       == [num |-> throttle.burst.windowMs - limit * sinceLast,
                         den |-> limit]
           expected  == IF gap.num > 0 THEN gap ELSE Whole(0)
           cap       == Whole(throttle.maxThrottleDelay)
       IN  IF seen.found = NoEntryYet
           THEN seen.wait.num = 0
           ELSE FracEq(seen.wait, IF FracLeq(expected, cap) THEN expected ELSE cap)

\* a request that follows another of its client closely enough to be held
\* for the full maxThrottleDelay, and no longer
C27_Witness ==
  /\ Throttled
  /\ throttle.seen.found # NoEntryYet
  /\ ~FracLeq(throttle.seen.delay, Whole(throttle.maxThrottleDelay))
  /\ throttle.seen.wait = Whole(throttle.maxThrottleDelay)

\* ------------------------------------------------------------------------
\* Properties of the warning header (SpecWarn)
\* ------------------------------------------------------------------------
\* C28: on a response whose headers are set from a decision,
\* X-RateLimit-Warning is 'Rate limit nearly exceeded' when remaining = 0,
\* 'Approaching rate limit' when 0 < remaining / limit <= 0.20, and absent
\* otherwise.
C28_WarningThresholds ==
  (hdr.seen.responded /\ hdr.seen.fromDecision) =>
    hdr.seen.warning =
      IF hdr.seen.remaining = 0 THEN "Rate limit nearly exceeded"
      ELSE IF 5 * hdr.seen.remaining <= hdr.limit THEN "Approaching rate limit"
      ELSE ""

\* an admitted request that leaves exactly a fifth of the limit
C28_Witness ==
  /\ hdr.seen.responded /\ hdr.seen.fromDecision /\ hdr.seen.allowed
  /\ hdr.seen.remaining > 0
  /\ 5 * hdr.seen.remaining = hdr.limit
  /\ hdr.seen.warning = "Approaching rate limit"

\* ------------------------------------------------------------------------
\* Properties of a rule with algorithm 'fixed' (SpecFixed)
\* ------------------------------------------------------------------------
\* the start of the aligned window that holds instant t
AlignedStart(t) == FloorDiv(t, rule.windowMs) * rule.windowMs

\* the requests admitted before call id whose arrival lies in the aligned
\* window of instant t
AdmittedInAligned(id, t) ==
  { d \in Admitted : d.id < id /\ AlignedStart(d.arrival) = AlignedStart(t) }

\* C31: the reply to a call under a rule with algorithm 'fixed' comes from
\* the fixed-window algorithm: its reset time is the end of the aligned
\* window floor(now/window)*window of the call, and it is admitted exactly
\* when fewer than maxRequests requests were admitted in that window.
C31_FixedWindowUsed ==
  [][\A c \in Callers :
       (rule.algorithm = "fixed" /\ calls[c].pc = "reply" /\ calls'[c].pc = "idle") =>
         /\ calls[c].path = "fixed"
         /\ calls[c].data.resetTime = AlignedStart(calls[c].arrival) + rule.windowMs
         /\ ReplyAllowed(calls[c]) <=>
              Cardinality(AdmittedInAligned(calls[c].id, calls[c].arrival))
                < rule.maxRequests]_vars

\* the parts of C31 about the reset time and about the count, one by one
C31_ResetTimeAligned ==
  [][\A c \in Callers :
       (calls[c].pc = "reply" /\ calls'[c].pc = "idle") =>
         calls[c].data.resetTime = AlignedStart(calls[c].arrival) + rule.windowMs]_vars

C31_CountAligned ==
  [][\A c \in Callers :
       (calls[c].pc = "reply" /\ calls'[c].pc = "idle") =>
         (ReplyAllowed(calls[c]) <=>
            Cardinality(AdmittedInAligned(calls[c].id, calls[c].arrival))
              < rule.maxRequests)]_vars

\* ------------------------------------------------------------------------
\* Properties of the worker's shutdown (SpecWorkerFair)
\* ------------------------------------------------------------------------
\* the runs of the shutdown closure that have begun their wait
Waited == { c \in ShutdownRuns : worker.run[c].pc \notin {"idle", "pausing"} }

\* the queue connections are closed only after the queues were paused and
\* no job is active or shutdownTimeout has passed since a wait began,
\* and the store client is closed only after the queue connections
ShutdownOrder ==
  /\ (worker'.queuesClosed /\ ~worker.queuesClosed) =>
       /\ worker.paused
       /\ \/ worker.active = 0
          \/ \E c \in Waited : now - worker.run[c].start >= shutdownTimeout
  /\ (worker'.storeClosed /\ ~worker.storeClosed) => worker.queuesClosed

\* C30: on a termination signal the worker first pauses both queues, then
\* waits until no job is active or 30 s have passed, only then closes the
\* queue connections and after them the store client; the shutdown always
\* ends with the exit of the process.
C30_GracefulShutdown ==
  /\ [][ShutdownOrder]_vars
  /\ (worker.isShuttingDown ~> worker.exit # "none")

\* the part of C30 that is about the end of the shutdown
C30_Terminates == worker.isShuttingDown ~> worker.exit # "none"

\* ------------------------------------------------------------------------
\* Properties of the CLEANUP job (SpecSweep)
\* ------------------------------------------------------------------------
\* C38: the CLEANUP job issued after a client's denial deletes no key of a
\* different client identifier or of a different rule.
C38_CleanupOwnKeyOnly ==
  sweep.pc = "done" => sweep.deleted \subseteq {sweep.owner}

\* the parts of C38: no key of another rule, no key of another client
C38_NoOtherRule ==
  sweep.pc = "done" => \A c \in sweep.deleted : c[2] = sweep.owner[2]
C38_NoOtherClient ==
  sweep.pc = "done" => \A c \in sweep.deleted : c[1] = sweep.owner[1]

\* ------------------------------------------------------------------------
\* Properties of the choice among results (SpecPick)
\* ------------------------------------------------------------------------
\* the rules that were evaluated for the request
Evaluated == { i \in 1..Len(PickRules) : pick.res[i].st # "inert" }

\* C29: when no rule blocks a request, the rule whose result is reported in
\* the headers is the evaluated rule with the lowest remaining requests.
C29_LowestRemainingWins ==
  (pick.composed /\ pick.blocked = 0 /\ Evaluated # {}) =>
    /\ pick.winner \in Evaluated
    /\ \A i \in Evaluated :
         pick.res[pick.winner].remaining <= pick.res[i].remaining

\* ------------------------------------------------------------------------
\* Properties of the reset endpoint (SpecReset)
\* ------------------------------------------------------------------------
\* the body is one the endpoint has to refuse
BadBody(body) ==
  \/ body.identifier.type # "string"
  \/ body.ruleId.type \notin {"undefined", "string"}

\* C26: the reset endpoint answers 400 whenever identifier is missing or not
\* a string or ruleId is supplied with a type other than string, answers 500
\* whenever the deletion in the store fails, and reports success only
\* otherwise.
C26_ResetAnswers ==
  admin.status # 0 =>
    admin.status = IF BadBody(admin.body) THEN 400
                   ELSE IF admin.delFailed THEN 500
                   ELSE 200

\* ------------------------------------------------------------------------
\* Properties of identifier extraction (SpecIdent)
\* ------------------------------------------------------------------------
\* the characters [A-Za-z0-9._-]
InKeyClass(c) ==
  \/ c >= 65 /\ c <= 90
  \/ c >= 97 /\ c <= 122
  \/ c >= 48 /\ c <= 57
  \/ c \in {46, 95, 45}

\* the part of the key after 'rl:<rule id>:<rule hash>:'
IdentifierPart(k) == SubSeq(k, Len(k) - Len(idOut.identifier) + 1, Len(k))

\* the source the identifier is taken from
Effective(h) ==
  /\ idReq[h] # <<>>
  /\ h # "forwarded" => idReq.forwarded = <<>>
  /\ h \notin {"forwarded", "realIp"} => idReq.realIp = <<>>
  /\ h \in {"cfConnectingIp", "remoteAddress"} => idReq.clientIp = <<>>
  /\ h = "remoteAddress" => idReq.cfConnectingIp = <<>>

\* octets to put in place of one octet of a literal: 0, 7, 8, 10, 255
OtherOctets == { <<48>>, <<55>>, <<56>>, <<49, 48>>, <<50, 53, 53>> }

\* the IPv4 literal with its octet at position pos replaced
WithOctet(lit, pos, o) ==
  LET f == [Split(lit, 46) EXCEPT ![pos] = o]
  IN  f[1] \o <<46>> \o f[2] \o <<46>> \o f[3] \o <<46>> \o f[4]

\* C25: the extracted identifier holds no control character (CR, LF, TAB,
\* 0x00-0x1f, 0x7f-0x9f), the identifier part of the generated key consists
\* of characters in [A-Za-z0-9._-] only, and two IPv4 literals that differ in
\* one octet yield distinct keys.
C25_IdentifierSanitised ==
  /\ \A i \in 1..Len(idOut.identifier) :
       LET c == idOut.identifier[i]
       IN  c > 31 /\ ~(c >= 127 /\ c <= 159)
  /\ Len(idOut.key) > Len(idOut.identifier)
  /\ \A i \in 1..Len(idOut.identifier) : InKeyClass(IdentifierPart(idOut.key)[i])
  /\ \A h \in Sources :
       (Effective(h) /\ ipv4Regex(idReq[h])) =>
         \A pos \in 1..4, o \in OtherOctets :
           LET other == WithOctet(idReq[h], pos, o)
           IN  other # idReq[h] =>
                 Extracted([idReq EXCEPT ![h] = other]).key # idOut.key

\* requests of other clients: an X-Forwarded-For header of up to two
\* fragments
OtherRequests ==
  { [NoRequest EXCEPT !.forwarded = f \o g] :
      f \in Fragments \cup {<<>>}, g \in Fragments \cup {<<>>} }

\* C39: under one rule, two different client identifiers never have the
\* same counter key.
C39_DistinctClientsDistinctKeys ==
  \A other \in OtherRequests :
    Extracted(other).identifier # idOut.identifier =>
      Extracted(other).key # idOut.key

\* a forwarded-for value with a line break after an IPv4 literal, and the
\* identifier taken from it
C25_Witness ==
  /\ Len(idReq.forwarded) > 8 /\ idReq.forwarded[9] = 13
  /\ ipv4Regex(SubSeq(idReq.forwarded, 1, 8))
  /\ idOut.identifier = SubSeq(idReq.forwarded, 1, 8)

====
